---- MODULE Spec2Model ----
(***************************************************************************)
(* A model of the frame-driven 2D camera and overlay components of the     *)
(* hydraulic animation: Camera2D (viewport interpolation, constraints,     *)
(* transform, onUpdate effect), CylinderPreview's re-derived camera state, *)
(* the HydraulicLines colour ramp and flow markers, the colour ramp of     *)
(* HydraulicCylinder2D and NumberPlane2D (nice steps, ticks, labels, the   *)
(* world to screen mapping, axes and series).                              *)
(*                                                                         *)
(* Numbers.  A JavaScript number is modelled as an exact fraction          *)
(* <<n, d>> in lowest terms with d > 0.  The non-finite values the code    *)
(* can produce by dividing by zero are kept as <<1, 0>> (+Infinity),       *)
(* <<-1, 0>> (-Infinity) and <<0, 0>> (NaN).  Rounding of IEEE doubles and *)
(* the sign of zero are not modelled.                                      *)
(***************************************************************************)
EXTENDS Integers, Sequences, FiniteSets, TLC

VARIABLES props, lprops, frame, pc, out, deps, updates, observed, preview, lines,
          firstOut, revisit, call, ret

vars == <<props, lprops, frame, pc, out, deps, updates, observed, preview, lines,
          firstOut, revisit, call, ret>>

(***************************************************************************)
(* Arithmetic of JavaScript numbers                                        *)
(***************************************************************************)
Abs(n) == IF n < 0 THEN -n ELSE n

Sign(n) == IF n < 0 THEN -1 ELSE IF n > 0 THEN 1 ELSE 0

RECURSIVE GCD(_, _)
GCD(a, b) == IF b = 0 THEN a ELSE GCD(b, a % b)

\* The fraction n/d (d # 0) in lowest terms with a positive denominator.
Norm(n, d) ==
    LET g == GCD(Abs(n), Abs(d))
        s == IF d < 0 THEN -1 ELSE 1
    IN  <<(s * n) \div g, (s * d) \div g>>

Q(n) == <<n, 1>>

Frac(n, d) == Norm(n, d)

NaN == <<0, 0>>

PosInf == <<1, 0>>

NegInf == <<-1, 0>>

IsFinite(a) == a[2] # 0

IsNaN(a) == a = NaN

\* a + b  (over the least common denominator, which keeps the
\* intermediate integers small)
Add(a, b) ==
    IF IsFinite(a) /\ IsFinite(b)
    THEN LET g == GCD(Abs(a[2]), Abs(b[2]))
         IN  Norm(a[1] * (b[2] \div g) + b[1] * (a[2] \div g), (a[2] \div g) * b[2])
    ELSE IF IsNaN(a) \/ IsNaN(b) THEN NaN
    ELSE IF IsFinite(a) THEN b
    ELSE IF IsFinite(b) THEN a
    ELSE IF a = b THEN a ELSE NaN

Neg(a) == <<-a[1], a[2]>>

\* a - b
Sub(a, b) == Add(a, Neg(b))

\* a * b
Mul(a, b) ==
    IF IsFinite(a) /\ IsFinite(b) THEN Norm(a[1] * b[1], a[2] * b[2])
    ELSE IF IsNaN(a) \/ IsNaN(b) THEN NaN
    ELSE IF a[1] = 0 \/ b[1] = 0 THEN NaN
    ELSE <<Sign(a[1]) * Sign(b[1]), 0>>

\* a / b
Div(a, b) ==
    IF IsNaN(a) \/ IsNaN(b) THEN NaN
    ELSE IF IsFinite(a) /\ IsFinite(b)
         THEN IF b[1] # 0 THEN Norm(a[1] * b[2], a[2] * b[1])
              ELSE IF a[1] = 0 THEN NaN ELSE <<Sign(a[1]), 0>>
    ELSE IF IsFinite(a) THEN Q(0)
    ELSE IF IsFinite(b) THEN <<Sign(a[1]) * (IF b[1] < 0 THEN -1 ELSE 1), 0>>
    ELSE NaN

\* n1/d1 < n2/d2 for positive denominators, by comparing the integer parts
\* and then the reciprocals of the fractional parts (no product is formed,
\* so numbers as far apart as 10 and 1e-9 can be compared).
RECURSIVE LtFrac(_, _, _, _)
LtFrac(n1, d1, n2, d2) ==
    LET f1 == n1 \div d1
        f2 == n2 \div d2
        r1 == n1 % d1
        r2 == n2 % d2
    IN  IF f1 # f2 THEN f1 < f2
        ELSE IF r2 = 0 THEN FALSE
        ELSE IF r1 = 0 THEN TRUE
        ELSE LtFrac(d2, r2, d1, r1)

\* a < b  (false when either side is NaN)
Lt(a, b) ==
    IF IsNaN(a) \/ IsNaN(b) THEN FALSE
    ELSE IF IsFinite(a) /\ IsFinite(b) THEN LtFrac(a[1], a[2], b[1], b[2])
    ELSE IF IsFinite(a) THEN b = PosInf
    ELSE IF IsFinite(b) THEN a = NegInf
    ELSE a = NegInf /\ b = PosInf

\* a === b  (false when either side is NaN)
NumEq(a, b) == ~IsNaN(a) /\ ~IsNaN(b) /\ a = b

Le(a, b) == Lt(a, b) \/ NumEq(a, b)

Gt(a, b) == Lt(b, a)

Ge(a, b) == Le(b, a)

\* Math.max(a, b), Math.min(a, b)
MathMax(a, b) == IF IsNaN(a) \/ IsNaN(b) THEN NaN ELSE IF Lt(a, b) THEN b ELSE a

MathMin(a, b) == IF IsNaN(a) \/ IsNaN(b) THEN NaN ELSE IF Lt(b, a) THEN b ELSE a

\* Math.floor(a), Math.trunc(a) and Math.round(a) of a finite number, as integers.
Floor(a) == a[1] \div a[2]

Trunc(a) == IF a[1] >= 0 THEN a[1] \div a[2] ELSE -((-a[1]) \div a[2])

MathRound(a) == Floor(Add(a, Frac(1, 2)))

\* Math.abs(a)
MathAbs(a) == <<Abs(a[1]), a[2]>>

\* a % 1: the remainder has the sign of the dividend.
Rem1(a) == IF IsFinite(a) THEN Sub(a, Q(Trunc(a))) ELSE NaN

\* The integer r with r * r <= n < (r + 1) * (r + 1), searched in lo..hi.
RECURSIVE ISqrtIn(_, _, _)
ISqrtIn(n, lo, hi) ==
    IF lo >= hi THEN lo
    ELSE LET mid == (lo + hi + 1) \div 2
         IN  IF mid * mid <= n THEN ISqrtIn(n, mid, hi) ELSE ISqrtIn(n, lo, mid - 1)

ISqrt(n) == ISqrtIn(n, 0, IF n < 46340 THEN n ELSE 46340)

\* Math.sqrt(a), exact when numerator and denominator are perfect squares
\* (the paths of the model have segments of rational length).
MathSqrt(a) ==
    IF ~IsFinite(a) \/ a[1] < 0 THEN NaN
    ELSE Norm(ISqrt(a[1]), ISqrt(a[2]))

\* An optional numeric prop that was not passed (undefined).
Undefined == <<0, -1>>

\* JavaScript truthiness of an optional number: undefined, 0 and NaN are falsy.
Truthy(a) == a # Undefined /\ a # NaN /\ a # Q(0)

(***************************************************************************)
(* remotion: Easing and interpolate, as Camera2D and CylinderPreview       *)
(* import and call them                                                    *)
(***************************************************************************)
\* Easing.linear
EasingLinear(t) == t

\* Easing.quad
EasingQuad(t) == Mul(t, t)

\* Easing.in(Easing.quad): Easing.in(easing) is easing itself
EasingInQuad(t) == EasingQuad(t)

\* Easing.out(Easing.quad): Easing.out(easing)(t) = 1 - easing(1 - t)
EasingOutQuad(t) == Sub(Q(1), EasingQuad(Sub(Q(1), t)))

\* Easing.inOut(Easing.quad): Easing.inOut(easing)(t) =
\*   t < 0.5 ? easing(t * 2) / 2 : 1 - easing((1 - t) * 2) / 2
EasingInOutQuad(t) ==
    IF Lt(t, Frac(1, 2))
    THEN Div(EasingQuad(Mul(t, Q(2))), Q(2))
    ELSE Sub(Q(1), Div(EasingQuad(Mul(Sub(Q(1), t), Q(2))), Q(2)))

\* const getEasing = (type) => ... ; applied to the progress t
getEasing(type, t) ==
    CASE type = "linear" -> EasingLinear(t)
      [] type = "easeIn" -> EasingInQuad(t)
      [] type = "easeOut" -> EasingOutQuad(t)
      [] type = "easeInOut" -> EasingInOutQuad(t)
      [] OTHER -> EasingInOutQuad(t)

\* interpolateConfig with extrapolateRight left at "extend" whatever clampFrames says.
interpolateConfig_extendRight(clampFrames, easing) ==
    [extrapolateLeft |-> IF clampFrames THEN "clamp" ELSE "extend",
     extrapolateRight |-> "extend",
     easing |-> easing]

\* const interpolateConfig = { extrapolateLeft, extrapolateRight, easing }
interpolateConfig(clampFrames, easing) ==
    [extrapolateLeft |-> IF clampFrames THEN "clamp" ELSE "extend",
     extrapolateRight |-> IF clampFrames THEN "clamp" ELSE "extend",
     easing |-> easing]

\* interpolate() rejects an input range that is not strictly increasing:
\* it throws instead of returning a number.
interpolateThrows(inputRange) == ~Lt(inputRange[1], inputRange[2])

\* interpolate(input, [inputMin, inputMax], [outputMin, outputMax], options)
\* for a valid input range.
interpolate(input, inputRange, outputRange, options) ==
    LET inputMin == inputRange[1]
        inputMax == inputRange[2]
        outputMin == outputRange[1]
        outputMax == outputRange[2]
        left == IF Lt(input, inputMin) /\ options.extrapolateLeft = "clamp"
                THEN inputMin ELSE input
        clamped == IF Gt(left, inputMax) /\ options.extrapolateRight = "clamp"
                   THEN inputMax ELSE left
        progress == Div(Sub(clamped, inputMin), Sub(inputMax, inputMin))
        eased == getEasing(options.easing, progress)
    IN  IF outputMin = outputMax THEN outputMin
        ELSE Add(Mul(eased, Sub(outputMax, outputMin)), outputMin)

(***************************************************************************)
(* Camera2D                                                                *)
(***************************************************************************)
CameraState(cx, cy, w, h) == [centerX |-> cx, centerY |-> cy, width |-> w, height |-> h]

\* CurrentState with the width interpolated from the target to the initial value.
CurrentState_swappedWidth(p, f) ==
    LET range == <<Q(p.startFrame), Q(p.endFrame)>>
        cfg == interpolateConfig(p.clampFrames, p.easing)
        I(a, b) == interpolate(Q(f), range, <<a, b>>, cfg)
    IN  CameraState(I(p.initialState.centerX, p.targetState.centerX),
                    I(p.initialState.centerY, p.targetState.centerY),
                    I(p.targetState.width, p.initialState.width),
                    I(p.initialState.height, p.targetState.height))

\* 3. Current State Calculation: the four interpolate() calls.
CurrentState(p, f) ==
    LET range == <<Q(p.startFrame), Q(p.endFrame)>>
        cfg == interpolateConfig(p.clampFrames, p.easing)
        I(a, b) == interpolate(Q(f), range, <<a, b>>, cfg)
    IN  CameraState(I(p.initialState.centerX, p.targetState.centerX),
                    I(p.initialState.centerY, p.targetState.centerY),
                    I(p.initialState.width, p.targetState.width),
                    I(p.initialState.height, p.targetState.height))

\* Apply constraints: if (minWidth) ..., if (maxWidth) ..., if (minHeight) ..., if (maxHeight) ...
ApplyConstraints(p, s) ==
    LET w1 == IF Truthy(p.minWidth) THEN MathMax(s.width, p.minWidth) ELSE s.width
        w2 == IF Truthy(p.maxWidth) THEN MathMin(w1, p.maxWidth) ELSE w1
        h1 == IF Truthy(p.minHeight) THEN MathMax(s.height, p.minHeight) ELSE s.height
        h2 == IF Truthy(p.maxHeight) THEN MathMin(h1, p.maxHeight) ELSE h1
    IN  [s EXCEPT !.width = w2, !.height = h2]

\* Apply Zoom Multiplier: if (zoomMultiplier !== 1) { width /= zoom; height /= zoom }
ApplyZoom(p, s) ==
    IF p.zoomMultiplier # Q(1)
    THEN [s EXCEPT !.width = Div(s.width, p.zoomMultiplier),
                   !.height = Div(s.height, p.zoomMultiplier)]
    ELSE s

\* 4. Aspect Ratio Correction: height = width / (sceneWidth / sceneHeight)
AspectCorrection(p, s) ==
    IF p.maintainAspectRatio
    THEN LET sceneAspect == Div(p.sceneWidth, p.sceneHeight)
         IN  [s EXCEPT !.height = Div(s.width, sceneAspect)]
    ELSE s

\* FinalState with the aspect correction applied before the size constraints.
FinalState_aspectFirst(p, s) == ApplyZoom(p, ApplyConstraints(p, AspectCorrection(p, s)))

\* The viewport of the frame: constraints, then zoom, then aspect correction.
FinalState(p, s) == AspectCorrection(p, ApplyZoom(p, ApplyConstraints(p, s)))

\* 5. Transform Calculation
Transform(p, v) ==
    LET scale == Div(p.sceneWidth, v.width)
    IN  [scale |-> scale,
         translateX |-> Sub(Div(p.sceneWidth, Q(2)), Mul(v.centerX, scale)),
         translateY |-> Sub(Div(p.sceneHeight, Q(2)), Mul(v.centerY, scale))]

NoState == CameraState(NaN, NaN, NaN, NaN)

NoTransform == [scale |-> NaN, translateX |-> NaN, translateY |-> NaN]

\* One evaluation of the component body for frame f.  ok = FALSE: the body
\* threw (interpolate rejected the frame range) and nothing was rendered.
Camera2D(p, f) ==
    IF interpolateThrows(<<Q(p.startFrame), Q(p.endFrame)>>)
    THEN [ok |-> FALSE, lerped |-> NoState, viewport |-> NoState, transform |-> NoTransform]
    ELSE LET s == CurrentState(p, f)
             v == FinalState(p, s)
         IN  [ok |-> TRUE, lerped |-> s, viewport |-> v, transform |-> Transform(p, v)]

\* EffectState built from the interpolated values before the adjustments.
EffectState_beforeAdjust(o) ==
    CameraState(o.lerped.centerX, o.lerped.centerY, o.lerped.width, o.lerped.height)

\* The object the onUpdate effect passes: { centerX: currentCenterX, ..., height: currentHeight }
EffectState(o) ==
    CameraState(o.viewport.centerX, o.viewport.centerY, o.viewport.width, o.viewport.height)

\* The effect's dependency list [currentCenterX, currentCenterY, currentWidth,
\* currentHeight, onUpdate] differs from the one of the last committed render.
\* An inline onUpdate handler is a new function on every render.
DepsChanged(p, old, o) ==
    \/ old = <<>>
    \/ old[1] # EffectState(o)
    \/ p.onUpdate = "inline"

(***************************************************************************)
(* HydraulicLines                                                          *)
(***************************************************************************)
\* A path string is a sequence of tokens: <<"num", v>> for a maximal run of
\* the characters [-0-9.] (a well-formed literal of value v), <<"sep">> for a
\* comma or a blank, <<"cmd">> for any other character (M, L, ...).
Num(v) == <<"num", Q(v)>>

SepTok == <<"sep">>

CmdTok == <<"cmd">>

IsNum(d, i) == i <= Len(d) /\ d[i][1] = "num"

IsSep(d, i) == i <= Len(d) /\ d[i][1] = "sep"

RECURSIVE SkipSeps(_, _)
SkipSeps(d, i) == IF IsSep(d, i) THEN SkipSeps(d, i + 1) ELSE i

\* d.matchAll(/([-\d.]+)[, ]+([-\d.]+)/g): the pairs number, separators,
\* number, scanned from position i, left to right without overlap.
RECURSIVE MatchPairs(_, _)
MatchPairs(d, i) ==
    IF i > Len(d) THEN <<>>
    ELSE IF IsNum(d, i) /\ IsSep(d, i + 1) /\ IsNum(d, SkipSeps(d, i + 1))
         THEN <<[x |-> d[i][2], y |-> d[SkipSeps(d, i + 1)][2]]>>
              \o MatchPairs(d, SkipSeps(d, i + 1) + 1)
         ELSE MatchPairs(d, i + 1)

\* coords: the points parsed from the path string.
ParseCoords(d) == MatchPairs(d, 1)

\* dist of segment i: Math.sqrt((p2.x - p1.x)^2 + (p2.y - p1.y)^2)
SegmentLength(coords, i) ==
    LET dx == Sub(coords[i + 1].x, coords[i].x)
        dy == Sub(coords[i + 1].y, coords[i].y)
    IN  MathSqrt(Add(Mul(dx, dx), Mul(dy, dy)))

\* totalLength after the first n segments.
RECURSIVE Cumulative(_, _)
Cumulative(coords, n) ==
    IF n = 0 THEN Q(0) ELSE Add(Cumulative(coords, n - 1), SegmentLength(coords, n))

\* segments: { p1, p2, length, cumulative } for each pair of consecutive points.
Segments(coords) ==
    [i \in 1..(Len(coords) - 1) |->
        [p1 |-> coords[i], p2 |-> coords[i + 1],
         length |-> SegmentLength(coords, i),
         cumulative |-> Cumulative(coords, i - 1)]]

\* The search that never matches: always the fallback, the last segment.
FindSegment_lastOnly(segments, target) == segments[Len(segments)]

\* segments.find(s => target >= s.cumulative && target <= s.cumulative + s.length)
\*   || segments[segments.length - 1]
FindSegment(segments, target) ==
    LET hits == {i \in 1..Len(segments) :
                    /\ Ge(target, segments[i].cumulative)
                    /\ Le(target, Add(segments[i].cumulative, segments[i].length))}
    IN  IF hits = {} THEN segments[Len(segments)]
        ELSE segments[CHOOSE i \in hits : \A j \in hits : i <= j]

\* getPointOnPolyline that interpolates in the first segment whatever t is.
getPointOnPolyline_firstSegment(d, t) ==
    LET coords == ParseCoords(d)
    IN  IF Len(coords) < 2 THEN [x |-> Q(0), y |-> Q(0)]
        ELSE LET segment == Segments(coords)[1]
                 targetLength == Mul(t, Cumulative(coords, Len(coords) - 1))
                 segmentT == IF segment.length = Q(0) THEN Q(0)
                             ELSE Div(targetLength, segment.length)
             IN  [x |-> Add(segment.p1.x, Mul(Sub(segment.p2.x, segment.p1.x), segmentT)),
                  y |-> Add(segment.p1.y, Mul(Sub(segment.p2.y, segment.p1.y), segmentT))]

\* getPointOnPolyline without the test segment.length === 0.
getPointOnPolyline_noZeroGuard(d, t) ==
    LET coords == ParseCoords(d)
    IN  IF Len(coords) < 2 THEN [x |-> Q(0), y |-> Q(0)]
        ELSE LET segments == Segments(coords)
                 targetLength == Mul(t, Cumulative(coords, Len(coords) - 1))
                 segment == FindSegment(segments, targetLength)
                 segmentT == Div(Sub(targetLength, segment.cumulative), segment.length)
             IN  [x |-> Add(segment.p1.x, Mul(Sub(segment.p2.x, segment.p1.x), segmentT)),
                  y |-> Add(segment.p1.y, Mul(Sub(segment.p2.y, segment.p1.y), segmentT))]

\* getPointOnPolyline(d, t)
getPointOnPolyline(d, t) ==
    LET coords == ParseCoords(d)
    IN  IF Len(coords) < 2 THEN [x |-> Q(0), y |-> Q(0)]
        ELSE LET segments == Segments(coords)
                 totalLength == Cumulative(coords, Len(coords) - 1)
                 targetLength == Mul(t, totalLength)
                 segment == FindSegment(segments, targetLength)
                 segmentOffset == Sub(targetLength, segment.cumulative)
                 segmentT == IF segment.length = Q(0) THEN Q(0)
                             ELSE Div(segmentOffset, segment.length)
             IN  [x |-> Add(segment.p1.x, Mul(Sub(segment.p2.x, segment.p1.x), segmentT)),
                  y |-> Add(segment.p1.y, Mul(Sub(segment.p2.y, segment.p1.y), segmentT))]

\* The gradient stops of getColor: offset and [r, g, b].
ColorStops ==
    <<[offset |-> Q(0), color |-> <<0, 0, 255>>],
      [offset |-> Frac(33, 100), color |-> <<0, 255, 0>>],
      [offset |-> Frac(66, 100), color |-> <<255, 255, 0>>],
      [offset |-> Q(1), color |-> <<255, 0, 0>>]>>

\* lerp that runs twice as far.
lerp_twice(a, b, t) == Add(a, Mul(Sub(b, a), Mul(Q(2), t)))

\* const lerp = (a, b, t) => a + (b - a) * t
lerp(a, b, t) == Add(a, Mul(Sub(b, a), t))

RECURSIVE HexDigits(_)
HexDigits(n) == IF n < 16 THEN <<n>> ELSE HexDigits(n \div 16) \o <<n % 16>>

\* toHex(c) = Math.round(c).toString(16).padStart(2, "0"): the hexadecimal
\* digits, with -1 for a minus sign and <<-2>> for "NaN".
toHex(c) ==
    IF ~IsFinite(c) THEN <<-2>>
    ELSE LET n == MathRound(c)
             digits == IF n < 0 THEN <<-1>> \o HexDigits(-n) ELSE HexDigits(n)
         IN  IF Len(digits) < 2 THEN <<0>> \o digits ELSE digits

\* rgbToHex(r, g, b) = `#${toHex(r)}${toHex(g)}${toHex(b)}`
rgbToHex(r, g, b) == toHex(r) \o toHex(g) \o toHex(b)

\* "#ff0000"
HexRed == <<15, 15, 0, 0, 0, 0>>

\* getColor without the clamp of the pressure to [0, max].
getColor_unclamped(maxPressure, p) ==
    LET t == Div(p, maxPressure)
        hits == {i \in 1..(Len(ColorStops) - 1) :
                    Ge(t, ColorStops[i].offset) /\ Le(t, ColorStops[i + 1].offset)}
    IN  IF hits = {} THEN HexRed
        ELSE LET i == CHOOSE k \in hits : \A j \in hits : k <= j
                 localT == Div(Sub(t, ColorStops[i].offset),
                               Sub(ColorStops[i + 1].offset, ColorStops[i].offset))
             IN  rgbToHex(lerp(Q(ColorStops[i].color[1]), Q(ColorStops[i + 1].color[1]), localT),
                          lerp(Q(ColorStops[i].color[2]), Q(ColorStops[i + 1].color[2]), localT),
                          lerp(Q(ColorStops[i].color[3]), Q(ColorStops[i + 1].color[3]), localT))

\* getColor(p) with max = maxPressure
getColor(maxPressure, p) ==
    LET max == maxPressure
        t == Div(MathMax(Q(0), MathMin(p, max)), max)
        hits == {i \in 1..(Len(ColorStops) - 1) :
                    Ge(t, ColorStops[i].offset) /\ Le(t, ColorStops[i + 1].offset)}
    IN  IF hits = {} THEN HexRed
        ELSE LET i == CHOOSE k \in hits : \A j \in hits : k <= j
                 start == ColorStops[i]
                 end == ColorStops[i + 1]
                 localT == Div(Sub(t, start.offset), Sub(end.offset, start.offset))
             IN  rgbToHex(lerp(Q(start.color[1]), Q(end.color[1]), localT),
                          lerp(Q(start.color[2]), Q(end.color[2]), localT),
                          lerp(Q(start.color[3]), Q(end.color[3]), localT))

\* const numDots = 8
numDots == 8

\* The path parameter without the correction if (t < 0) t += 1.
DotT_noWrap(maxFlow, f, flow, i) ==
    LET normFlow == MathMax(Q(-1), MathMin(Q(1), Div(flow, maxFlow)))
    IN  Rem1(Add(Mul(Q(f), Mul(normFlow, Frac(1, 100))), Frac(i, numDots)))

\* The path parameter of dot i (0-based) at frame f.
DotT(maxFlow, f, flow, i) ==
    LET normFlow == MathMax(Q(-1), MathMin(Q(1), Div(flow, maxFlow)))
        speed == Mul(normFlow, Frac(1, 100))
        initialOffset == Frac(i, numDots)
        t == Rem1(Add(Mul(Q(f), speed), initialOffset))
    IN  IF Lt(t, Q(0)) THEN Add(t, Q(1)) ELSE t

\* renderDots with the frame of the previous evaluation in place of the current one.
renderDots_staleFrame(maxFlow, f, path, flow) ==
    IF Lt(MathAbs(flow), Frac(1, 100)) THEN <<>>
    ELSE [k \in 1..numDots |-> getPointOnPolyline(path, DotT(maxFlow, frame, flow, k - 1))]

\* renderDots(path, flow) at frame f: null (no dots) or the centres of the 8 circles.
renderDots(maxFlow, f, path, flow) ==
    IF Lt(MathAbs(flow), Frac(1, 100)) THEN <<>>
    ELSE [k \in 1..numDots |-> getPointOnPolyline(path, DotT(maxFlow, f, flow, k - 1))]

\* One evaluation of HydraulicLines at frame f: the two stroke colours and the dots.
HydraulicLines(lp, f) ==
    [colorA |-> getColor(lp.maxPressure, lp.pressureA),
     colorB |-> getColor(lp.maxPressure, lp.pressureB),
     dotsA |-> renderDots(lp.maxFlow, f, lp.pathA, lp.flowA[f]),
     dotsB |-> renderDots(lp.maxFlow, f, lp.pathB, lp.flowB[f])]

(***************************************************************************)
(* The camera under every configuration of the bounded input space         *)
(***************************************************************************)
\* Frames are evaluated for indices 0..MaxFrame, in any order.
MaxFrame == 4

\* startFrame ranges over 0..MaxStart and endFrame over startFrame..startFrame+MaxDuration.
MaxStart == 1

MaxDuration == 2

Frames == 0..MaxFrame

WideState == CameraState(Q(5), Q(3), Q(8), Q(6))

NarrowState == CameraState(Q(2), Q(4), Q(4), Q(2))

States == {WideState, NarrowState}

Easings == {"linear", "easeIn", "easeOut", "easeInOut"}

NoBounds == <<Undefined, Undefined>>

\* The size adjustments of a configuration: zoomMultiplier, <<minWidth, maxWidth>>,
\* <<minHeight, maxHeight>>.  Q(0) is a bound that was passed as 0.
Adjustments ==
    {<<Q(1), NoBounds, NoBounds>>,
     <<Q(1), <<Q(0), Undefined>>, NoBounds>>,
     <<Q(1), <<Q(5), Q(6)>>, <<Q(4), Q(5)>>>>,
     <<Q(2), <<Q(5), Q(6)>>, <<Q(4), Q(5)>>>>}

\* onUpdate is not passed, is a stable function, or is an inline arrow function.
Observers == {"none", "stable", "inline"}

CameraProps ==
    {[startFrame |-> s, endFrame |-> s + d,
      initialState |-> i, targetState |-> t,
      sceneWidth |-> Q(16), sceneHeight |-> Q(9),
      easing |-> e, maintainAspectRatio |-> a, clampFrames |-> c,
      zoomMultiplier |-> adj[1],
      minWidth |-> adj[2][1], maxWidth |-> adj[2][2],
      minHeight |-> adj[3][1], maxHeight |-> adj[3][2],
      onUpdate |-> u] :
        s \in 0..MaxStart, d \in 0..MaxDuration, i \in States, t \in States,
        e \in Easings, a \in BOOLEAN, c \in BOOLEAN, adj \in Adjustments,
        u \in Observers}

NoOutput == [ok |-> FALSE, lerped |-> NoState, viewport |-> NoState, transform |-> NoTransform]

Init ==
    /\ props \in CameraProps
    /\ frame = 0
    /\ pc = "mount"
    /\ out = NoOutput
    /\ deps = <<>>
    /\ updates = 0
    /\ observed = <<>>
    /\ lprops = <<>>
    /\ preview = NoState
    /\ lines = <<>>
    /\ firstOut = <<>>
    /\ revisit = FALSE
    /\ call = <<>>
    /\ ret = <<>>

\* The renderer evaluates Camera2D for frame f (useCurrentFrame() = f).
\* Passive effects of the previous commit have run before the next render.
RenderCamera(f) ==
    /\ pc \in {"mount", "idle"}
    /\ frame' = f
    /\ out' = Camera2D(props, f)
    /\ updates' = 0
    /\ observed' = <<>>
    /\ IF out'.ok
       THEN /\ deps' = <<EffectState(out')>>
            /\ pc' = IF DepsChanged(props, deps, out') THEN "effect" ELSE "idle"
       ELSE /\ deps' = <<>>
            /\ pc' = "idle"
    /\ UNCHANGED props

Render(f) ==
    /\ RenderCamera(f)
    /\ UNCHANGED <<lprops, preview, lines, firstOut, revisit, call, ret>>

\* useEffect(() => { if (onUpdate) onUpdate({...}) }, [...]) runs after the commit.
RunEffect ==
    /\ pc = "effect"
    /\ pc' = "idle"
    /\ IF props.onUpdate # "none"
       THEN /\ updates' = updates + 1
            /\ observed' = Append(observed, deps[1])
       ELSE UNCHANGED <<updates, observed>>
    /\ UNCHANGED <<props, lprops, frame, out, deps, preview, lines, firstOut, revisit, call, ret>>

Next ==
    \/ \E f \in Frames : Render(f)
    \/ RunEffect

Spec == Init /\ [][Next]_vars

(***************************************************************************)
(* CylinderPreview: the composition's camera and its re-derived state      *)
(***************************************************************************)
sceneWidth == 1920

sceneHeight == 1080

zoomStart == 600

zoomDuration == 60

zoomEnd == zoomStart + zoomDuration

\* const targetZoom = 2.8
targetZoom == Frac(28, 10)

initialState == CameraState(Div(Q(sceneWidth), Q(2)), Div(Q(sceneHeight), Q(2)),
                            Q(sceneWidth), Q(sceneHeight))

targetState == CameraState(Q(350), Q(544),
                           Div(Q(sceneWidth), targetZoom), Div(Q(sceneHeight), targetZoom))

\* The props of <Camera2D ...> in CylinderPreview; the props not passed take
\* the defaults of Camera2D's parameter list.
PreviewCameraProps ==
    [startFrame |-> zoomStart, endFrame |-> zoomEnd,
     initialState |-> initialState, targetState |-> targetState,
     sceneWidth |-> Q(sceneWidth), sceneHeight |-> Q(sceneHeight),
     easing |-> "easeInOut", maintainAspectRatio |-> TRUE, clampFrames |-> TRUE,
     zoomMultiplier |-> Q(1),
     minWidth |-> Undefined, maxWidth |-> Undefined,
     minHeight |-> Undefined, maxHeight |-> Undefined,
     onUpdate |-> "none"]

\* currentCameraState with Easing.linear in place of Easing.inOut(Easing.quad).
currentCameraState_linear(f) ==
    LET cfg == [extrapolateLeft |-> "clamp", extrapolateRight |-> "clamp", easing |-> "linear"]
        I(a, b) == interpolate(Q(f), <<Q(zoomStart), Q(zoomEnd)>>, <<a, b>>, cfg)
    IN  CameraState(I(initialState.centerX, targetState.centerX),
                    I(initialState.centerY, targetState.centerY),
                    I(initialState.width, targetState.width),
                    I(initialState.height, targetState.height))

\* const currentCameraState = { centerX: interpolate(...), ... } passed to MouseCoordinateOverlay
currentCameraState(f) ==
    LET cfg == [extrapolateLeft |-> "clamp", extrapolateRight |-> "clamp", easing |-> "easeInOut"]
        I(a, b) == interpolate(Q(f), <<Q(zoomStart), Q(zoomEnd)>>, <<a, b>>, cfg)
    IN  CameraState(I(initialState.centerX, targetState.centerX),
                    I(initialState.centerY, targetState.centerY),
                    I(initialState.width, targetState.width),
                    I(initialState.height, targetState.height))

\* The preview is evaluated, in any order, for the frames of the zoom and the
\* PreviewMargin frames before and after it (the frames further out are
\* clamped to the same two states).
PreviewMargin == 25

PreviewFrames == (zoomStart - PreviewMargin)..(zoomEnd + PreviewMargin)

InitPreview ==
    /\ props = PreviewCameraProps
    /\ lprops = <<>>
    /\ frame = zoomStart - PreviewMargin
    /\ pc = "mount"
    /\ out = NoOutput
    /\ deps = <<>>
    /\ updates = 0
    /\ observed = <<>>
    /\ preview = NoState
    /\ lines = <<>>
    /\ firstOut = <<>>
    /\ revisit = FALSE
    /\ call = <<>>
    /\ ret = <<>>

\* One evaluation of CylinderPreview at frame f: its own currentCameraState
\* and the Camera2D child.
RenderPreview(f) ==
    /\ RenderCamera(f)
    /\ preview' = currentCameraState(f)
    /\ UNCHANGED <<lprops, lines, firstOut, revisit, call, ret>>

NextPreview ==
    \/ \E f \in PreviewFrames : RenderPreview(f)
    \/ RunEffect

SpecPreview == InitPreview /\ [][NextPreview]_vars

(***************************************************************************)
(* A scene of Camera2D with HydraulicLines inside, evaluated frame by      *)
(* frame in any order, with the first output of every frame recorded       *)
(***************************************************************************)
\* The scene is evaluated for the frames 0..MaxSceneFrame, in any order.
MaxSceneFrame == 3

SceneFrames == 0..MaxSceneFrame

\* pathA="M 520,905 L 520,774 L 320,774"
pathA ==
    <<CmdTok, SepTok, Num(520), SepTok, Num(905), SepTok,
      CmdTok, SepTok, Num(520), SepTok, Num(774), SepTok,
      CmdTok, SepTok, Num(320), SepTok, Num(774)>>

\* pathB="M 680,905 L 680,572 L 320,572"
pathB ==
    <<CmdTok, SepTok, Num(680), SepTok, Num(905), SepTok,
      CmdTok, SepTok, Num(680), SepTok, Num(572), SepTok,
      CmdTok, SepTok, Num(320), SepTok, Num(572)>>

\* A flow that depends on the frame, as flowA={Math.sin(frame / 30) * 100}
\* does: a wave through 0, 100, 0, -100.
FlowWave(f) == Q((<<0, 100, 0, -100>>)[(f % 4) + 1])

FlowSteady(f) == Q(50)

SceneLinesProps ==
    {[pathA |-> pathA, pathB |-> pathB,
      pressureA |-> pr[1], pressureB |-> pr[2], maxPressure |-> Q(300),
      flowA |-> fl, flowB |-> [f \in SceneFrames |-> Neg(fl[f])], maxFlow |-> Q(100)] :
        pr \in {<<Q(100), Q(300)>>},
        fl \in {[f \in SceneFrames |-> FlowWave(f)], [f \in SceneFrames |-> FlowSteady(f)]}}

SceneCameraProps ==
    {p \in CameraProps :
        /\ p.startFrame = 1 /\ p.endFrame = 3
        /\ p.initialState = WideState /\ p.targetState = NarrowState
        /\ p.easing \in {"linear", "easeInOut"}
        /\ p.maintainAspectRatio /\ p.clampFrames
        /\ p.zoomMultiplier = Q(2) /\ p.minWidth = Q(5)
        /\ p.onUpdate = "stable"}

InitScene ==
    /\ props \in SceneCameraProps
    /\ lprops \in SceneLinesProps
    /\ frame = 0
    /\ pc = "mount"
    /\ out = NoOutput
    /\ deps = <<>>
    /\ updates = 0
    /\ observed = <<>>
    /\ preview = NoState
    /\ lines = <<>>
    /\ firstOut = <<>>
    /\ revisit = FALSE
    /\ call = <<>>
    /\ ret = <<>>

\* The outputs of one evaluation of the scene.
SceneOutput(camera, hydraulic) ==
    [viewport |-> camera.viewport, transform |-> camera.transform,
     colorA |-> hydraulic.colorA, colorB |-> hydraulic.colorB,
     dotsA |-> hydraulic.dotsA, dotsB |-> hydraulic.dotsB]

\* One evaluation of the scene at frame f.  firstOut keeps the output of the
\* first evaluation of each frame, revisit tells a repeated evaluation.
RenderScene(f) ==
    /\ RenderCamera(f)
    /\ lines' = HydraulicLines(lprops, f)
    /\ revisit' = (f \in DOMAIN firstOut)
    /\ firstOut' = IF f \in DOMAIN firstOut THEN firstOut
                   ELSE (f :> SceneOutput(out', lines')) @@ firstOut
    /\ UNCHANGED <<lprops, preview, call, ret>>

NextScene ==
    \/ \E f \in SceneFrames : RenderScene(f)
    \/ RunEffect

SpecScene == InitScene /\ [][NextScene]_vars

(***************************************************************************)
(* Properties of Camera2D                                                  *)
(***************************************************************************)
\* A frame has been evaluated and the component body returned.
Evaluated == pc # "mount" /\ out.ok

\* x lies in the closed interval between a and b.
Between(x, a, b) == Le(MathMin(a, b), x) /\ Le(x, MathMax(a, b))

\* C1: with startFrame < endFrame and linear easing, the viewport at
\* frame = startFrame is the adjusted initial state and the viewport at
\* frame = endFrame is the adjusted target state.
C1_Endpoints ==
    (Evaluated /\ props.easing = "linear" /\ props.startFrame < props.endFrame) =>
        /\ frame = props.startFrame => out.viewport = FinalState(props, props.initialState)
        /\ frame = props.endFrame => out.viewport = FinalState(props, props.targetState)

C1_Witness ==
    /\ Evaluated
    /\ props.easing = "linear"
    /\ props.startFrame < props.endFrame
    /\ frame = props.endFrame
    /\ props.initialState # props.targetState
    /\ out.viewport = FinalState(props, props.targetState)
    /\ out.viewport # props.targetState

\* C2: with clampFrames = true, a frame at or before startFrame gives the
\* viewport of startFrame, a frame at or after endFrame gives the viewport of
\* endFrame, and in between centerX, centerY and the interpolated width lie
\* between their initial and target values.
C2_Clamped ==
    (Evaluated /\ props.clampFrames) =>
        /\ frame <= props.startFrame =>
               out.viewport = Camera2D(props, props.startFrame).viewport
        /\ frame >= props.endFrame =>
               out.viewport = Camera2D(props, props.endFrame).viewport
        /\ Between(out.lerped.centerX, props.initialState.centerX, props.targetState.centerX)
        /\ Between(out.lerped.centerY, props.initialState.centerY, props.targetState.centerY)
        /\ Between(out.lerped.width, props.initialState.width, props.targetState.width)

C2_Witness ==
    /\ Evaluated
    /\ props.clampFrames
    /\ props.initialState # props.targetState
    /\ frame > props.endFrame
    /\ out.viewport = Camera2D(props, props.endFrame).viewport
    /\ out.viewport # Camera2D(props, props.startFrame).viewport

\* Clamping x to [lo, hi], each bound applied where it was given.
ClampWhereGiven(x, lo, hi) ==
    LET a == IF lo # Undefined THEN MathMax(x, lo) ELSE x
    IN  IF hi # Undefined THEN MathMin(a, hi) ELSE a

\* C3: the final size is the interpolated size (1) clamped to the given
\* bounds, (2) divided by zoomMultiplier, (3) with the height replaced by
\* width / (sceneWidth / sceneHeight) when maintainAspectRatio is set.
C3_AdjustmentOrder ==
    Evaluated =>
        LET w1 == ClampWhereGiven(out.lerped.width, props.minWidth, props.maxWidth)
            h1 == ClampWhereGiven(out.lerped.height, props.minHeight, props.maxHeight)
            w2 == Div(w1, props.zoomMultiplier)
            h2 == Div(h1, props.zoomMultiplier)
            h3 == IF props.maintainAspectRatio
                  THEN Div(w2, Div(props.sceneWidth, props.sceneHeight))
                  ELSE h2
        IN  out.viewport.width = w2 /\ out.viewport.height = h3

\* C4: with maintainAspectRatio = true the final viewport satisfies
\* height * sceneWidth = width * sceneHeight, whatever the heights and the
\* height bounds; a width of 600 in a 1920x1080 scene gives a height of 337.5.
C4_AspectLocked ==
    /\ (Evaluated /\ props.maintainAspectRatio) =>
           NumEq(Mul(out.viewport.height, props.sceneWidth),
                 Mul(out.viewport.width, props.sceneHeight))
    /\ FinalState([props EXCEPT !.sceneWidth = Q(1920), !.sceneHeight = Q(1080),
                                !.maintainAspectRatio = TRUE, !.zoomMultiplier = Q(1),
                                !.minWidth = Undefined, !.maxWidth = Undefined],
                  CameraState(Q(0), Q(0), Q(600), Q(100))).height = Frac(675, 2)

C4_Witness ==
    /\ Evaluated
    /\ props.maintainAspectRatio
    /\ props.minHeight # Undefined
    /\ out.viewport.height # ApplyZoom(props, ApplyConstraints(props, out.lerped)).height
    /\ NumEq(Mul(out.viewport.height, props.sceneWidth),
             Mul(out.viewport.width, props.sceneHeight))

\* C5: the transform maps the viewport centre to the screen centre, with
\* scale = sceneWidth / viewport.width on both axes.
C5_CenterToScreenCenter ==
    Evaluated =>
        /\ NumEq(out.transform.scale, Div(props.sceneWidth, out.viewport.width))
        /\ NumEq(Add(Mul(out.viewport.centerX, out.transform.scale), out.transform.translateX),
                 Div(props.sceneWidth, Q(2)))
        /\ NumEq(Add(Mul(out.viewport.centerY, out.transform.scale), out.transform.translateY),
                 Div(props.sceneHeight, Q(2)))

\* C6: when the initial and target sizes and zoomMultiplier are positive, the
\* viewport has width > 0 and height > 0, with and without clampFrames.
C6_PositiveSize ==
    (/\ Evaluated
     /\ Gt(props.initialState.width, Q(0)) /\ Gt(props.initialState.height, Q(0))
     /\ Gt(props.targetState.width, Q(0)) /\ Gt(props.targetState.height, Q(0))
     /\ Gt(props.zoomMultiplier, Q(0))) =>
        Gt(out.viewport.width, Q(0)) /\ Gt(out.viewport.height, Q(0))

\* C7: per frame evaluation onUpdate is invoked at most once, after the
\* viewport is final, with the final viewport the frame's transform is derived from.
C7_ObserverOnceWithFinal ==
    /\ updates <= 1
    /\ Len(observed) = updates
    /\ updates = 1 =>
           /\ pc = "idle"
           /\ Evaluated
           /\ observed[1] = out.viewport
           /\ out.transform = Transform(props, observed[1])

C7_Witness ==
    /\ updates = 1
    /\ Evaluated
    /\ observed[1] = out.viewport
    /\ observed[1] # out.lerped
    /\ frame > 0

\* C9: with endFrame = startFrame the evaluation does not fail and yields the
\* adjusted initial or the adjusted target state for every frame.
C9_DegenerateRange ==
    (pc # "mount" /\ props.endFrame = props.startFrame) =>
        /\ out.ok
        /\ \/ out.viewport = FinalState(props, props.initialState)
           \/ out.viewport = FinalState(props, props.targetState)

MathFloor(a) == IF IsFinite(a) THEN Q(Floor(a)) ELSE a

MathCeil(a) == IF IsFinite(a) THEN Q(-Floor(Neg(a))) ELSE a

\* The integer k with 10^k <= r < 10^(k+1), for a finite r > 0.
RECURSIVE FloorLog10Pos(_)
FloorLog10Pos(r) ==
    IF Ge(r, Q(10)) THEN FloorLog10Pos(Div(r, Q(10))) + 1
    ELSE IF Lt(r, Q(1)) THEN FloorLog10Pos(Mul(r, Q(10))) - 1
    ELSE 0

\* Math.floor(Math.log10(a)): log10 is NaN below 0, -Infinity at 0.
FloorLog10(a) ==
    IF IsNaN(a) \/ a = NegInf THEN NaN
    ELSE IF a = PosInf THEN PosInf
    ELSE IF a[1] < 0 THEN NaN
    ELSE IF a[1] = 0 THEN NegInf
    ELSE Q(FloorLog10Pos(a))

\* Math.pow(10, e) for an integral or non-finite exponent e.
Pow10(e) ==
    IF IsNaN(e) THEN NaN
    ELSE IF e = PosInf THEN PosInf
    ELSE IF e = NegInf THEN Q(0)
    ELSE IF e[1] >= 0 THEN Q(10 ^ e[1])
    ELSE Frac(1, 10 ^ (-e[1]))

\* getNiceStep that always takes the next power of ten.
getNiceStep_nextDecade(range, targetTicks) ==
    Mul(Q(10), Pow10(FloorLog10(Div(range, targetTicks))))

\* getNiceStep(range, targetTicks)
getNiceStep(range, targetTicks) ==
    LET rawStep == Div(range, targetTicks)
        mag == Pow10(FloorLog10(rawStep))
        normalized == Div(rawStep, mag)
    IN  IF Lt(normalized, Frac(15, 10)) THEN Mul(Q(1), mag)
        ELSE IF Lt(normalized, Frac(35, 10)) THEN Mul(Q(2), mag)
        ELSE IF Lt(normalized, Frac(75, 10)) THEN Mul(Q(5), mag)
        ELSE Mul(Q(10), mag)

\* The text of a number: a sign, the digits as a whole number and how many
\* of them follow the decimal point ("-1.50" is DecimalText(TRUE, 150, 2)).
DecimalText(neg, digits, decimals) ==
    [text |-> "decimal", neg |-> neg, digits |-> digits, decimals |-> decimals]

NaNText == [text |-> "NaN", neg |-> FALSE, digits |-> 0, decimals |-> 0]

InfinityText(neg) == [text |-> "Infinity", neg |-> neg, digits |-> 0, decimals |-> 0]

\* num.toString() of an integer
toString(num) == DecimalText(num[1] < 0, Abs(num[1]), 0)

\* num.toFixed(digits): the sign, then the integer n with n / 10^digits
\* nearest to |num|, the larger n on a tie.
toFixed(num, digits) ==
    IF IsNaN(num) THEN NaNText
    ELSE IF ~IsFinite(num) THEN InfinityText(num[1] < 0)
    ELSE DecimalText(num[1] < 0,
                     Floor(Add(Mul(MathAbs(num), Q(10 ^ digits[1])), Frac(1, 2))),
                     digits[1])

\* Math.abs(num) < 1e-10.  Every fraction of this model other than 0 has a
\* magnitude of at least 1/(2^31 - 1), which is above 1e-10.
Below1e10(num) == IsFinite(num) /\ num[1] = 0

\* Number.isInteger(num)
IsInteger(num) == IsFinite(num) /\ num[2] = 1

\* formatNumber(num, precision = 0)
formatNumber(num, precisionArg) ==
    LET precision == IF precisionArg = Undefined THEN Q(0) ELSE precisionArg
    IN  IF Below1e10(num) THEN DecimalText(FALSE, 0, 0)
        ELSE IF IsInteger(num) /\ NumEq(precision, Q(0)) THEN toString(num)
        ELSE toFixed(num, precision)

\* a || b
OrElse(a, b) == IF Truthy(a) THEN a ELSE b

\* The coordinate system of a plane with props p: the data ranges and the
\* plot rectangle inside the padding (default 20).
Plot(p) ==
    LET padding == IF p.padding = Undefined THEN Q(20) ELSE p.padding
    IN  [xMin |-> p.xRange[1], xMax |-> p.xRange[2],
         yMin |-> p.yRange[1], yMax |-> p.yRange[2],
         xSpan |-> Sub(p.xRange[2], p.xRange[1]),
         ySpan |-> Sub(p.yRange[2], p.yRange[1]),
         plotX |-> padding,
         plotY |-> padding,
         plotW |-> Sub(p.width, Mul(Q(2), padding)),
         plotH |-> Sub(p.height, Mul(Q(2), padding))]

\* mapX without the offset of the plot rectangle.
mapX_noOffset(p, val) ==
    LET c == Plot(p)
    IN  Mul(Div(Sub(val, c.xMin), c.xSpan), c.plotW)

\* mapX(val) = plotX + ((val - xMin) / xSpan) * plotW
mapX(p, val) ==
    LET c == Plot(p)
    IN  Add(c.plotX, Mul(Div(Sub(val, c.xMin), c.xSpan), c.plotW))

\* mapY without the inversion of the screen axis.
mapY_notInverted(p, val) ==
    LET c == Plot(p)
    IN  Add(c.plotY, Mul(Div(Sub(val, c.yMin), c.ySpan), c.plotH))

\* mapY(val) = plotY + plotH - ((val - yMin) / ySpan) * plotH
mapY(p, val) ==
    LET c == Plot(p)
    IN  Sub(Add(c.plotY, c.plotH), Mul(Div(Sub(val, c.yMin), c.ySpan), c.plotH))

\* xAxisConfig.tickStep || getNiceStep(xSpan, 8)
xStep(p) == OrElse(p.xAxisConfig.tickStep, getNiceStep(Plot(p).xSpan, Q(8)))

\* yAxisConfig.tickStep || getNiceStep(ySpan, 5)
yStep(p) == OrElse(p.yAxisConfig.tickStep, getNiceStep(Plot(p).ySpan, Q(5)))

xGridStep(p) == OrElse(p.grid.xMajorStep, OrElse(p.grid.majorStep, xStep(p)))

yGridStep(p) == OrElse(p.grid.yMajorStep, OrElse(p.grid.majorStep, yStep(p)))

\* The tolerance 1e-9 of the tick loop and of the origin test.
Tolerance == Frac(1, 1000000000)

\* for (let v = start; v <= max + 1e-9; v += step) ticks.push(v)
\* The loop test is taken as v - max <= 1e-9, which is the same test on exact
\* numbers and needs no number of the size of max * 1e9.
RECURSIVE TickLoop(_, _, _, _)
TickLoop(v, max, step, ticks) ==
    IF Le(Sub(v, max), Tolerance)
    THEN TickLoop(Add(v, step), max, step, Append(ticks, v))
    ELSE ticks

\* getTicks starting at the last multiple of step at or below min.
getTicks_floorStart(min, max, step) ==
    TickLoop(Mul(MathFloor(Div(min, step)), step), max, step, <<>>)

\* getTicks(min, max, step)
getTicks(min, max, step) ==
    LET start == Mul(MathCeil(Div(min, step)), step)
    IN  TickLoop(start, max, step, <<>>)

xGridTicks(p) == getTicks(Plot(p).xMin, Plot(p).xMax, xGridStep(p))

yGridTicks(p) == getTicks(Plot(p).yMin, Plot(p).yMax, yGridStep(p))

xAxisTicks(p) == getTicks(Plot(p).xMin, Plot(p).xMax, xStep(p))

yAxisTicks(p) == getTicks(Plot(p).yMin, Plot(p).yMax, yStep(p))

\* A line element from (x1, y1) to (x2, y2).
Line(x1, y1, x2, y2) == [x1 |-> x1, y1 |-> y1, x2 |-> x2, y2 |-> y2]

\* renderGrid(): one vertical line per x grid tick, one horizontal line per
\* y grid tick (grid.showGrid is left at its default).
renderGrid(p) ==
    LET c == Plot(p)
        xs == xGridTicks(p)
        ys == yGridTicks(p)
    IN  [vertical |-> [i \in 1..Len(xs) |->
                          Line(mapX(p, xs[i]), c.plotY, mapX(p, xs[i]), Add(c.plotY, c.plotH))],
         horizontal |-> [i \in 1..Len(ys) |->
                          Line(c.plotX, mapY(p, ys[i]), Add(c.plotX, c.plotW), mapY(p, ys[i]))]]

\* A number label at (x, y); drawn is FALSE where the map callback returns null.
Label(x, y, text) == [drawn |-> TRUE, x |-> x, y |-> y, text |-> text]

NoLabel == [drawn |-> FALSE, x |-> NaN, y |-> NaN, text |-> NaNText]

\* The X axis at mapY(0) wherever 0 lies.
finalAxisY_atZero(p) == mapY(p, Q(0))

\* let finalAxisY = mapY(0); if (yMin > 0) ... else if (yMax < 0) ...
finalAxisY(p) ==
    IF Gt(Plot(p).yMin, Q(0)) THEN mapY(p, Plot(p).yMin)
    ELSE IF Lt(Plot(p).yMax, Q(0)) THEN mapY(p, Plot(p).yMax)
    ELSE mapY(p, Q(0))

\* let finalAxisX = mapX(0); if (xMin > 0) ... else if (xMax < 0) ...
finalAxisX(p) ==
    IF Gt(Plot(p).xMin, Q(0)) THEN mapX(p, Plot(p).xMin)
    ELSE IF Lt(Plot(p).xMax, Q(0)) THEN mapX(p, Plot(p).xMax)
    ELSE mapX(p, Q(0))

\* renderXAxis(): the axis line, the tick marks and the number labels
\* (showAxis, showTicks and showNumbers are left at their defaults).
renderXAxis(p) ==
    LET c == Plot(p)
        axisY == finalAxisY(p)
        ts == xAxisTicks(p)
    IN  [line |-> Line(c.plotX, axisY, Add(c.plotX, c.plotW), axisY),
         ticks |-> [i \in 1..Len(ts) |->
                       Line(mapX(p, ts[i]), Sub(axisY, Q(4)), mapX(p, ts[i]), Add(axisY, Q(4)))],
         numbers |-> [i \in 1..Len(ts) |->
                       IF Lt(MathAbs(ts[i]), Tolerance) /\ p.showOrigin THEN NoLabel
                       ELSE Label(mapX(p, ts[i]), Add(axisY, Q(25)),
                                  formatNumber(ts[i], p.xAxisConfig.numberPrecision))]]

\* renderYAxis()
renderYAxis(p) ==
    LET c == Plot(p)
        axisX == finalAxisX(p)
        ts == yAxisTicks(p)
    IN  [line |-> Line(axisX, c.plotY, axisX, Add(c.plotY, c.plotH)),
         ticks |-> [i \in 1..Len(ts) |->
                       Line(Sub(axisX, Q(4)), mapY(p, ts[i]), Add(axisX, Q(4)), mapY(p, ts[i]))],
         numbers |-> [i \in 1..Len(ts) |->
                       IF Lt(MathAbs(ts[i]), Tolerance) /\ p.showOrigin THEN NoLabel
                       ELSE Label(Sub(axisX, Q(15)), Add(mapY(p, ts[i]), Q(5)),
                                  formatNumber(ts[i], p.yAxisConfig.numberPrecision))]]

\* xValues is a flat array of numbers or an array of arrays.
FlatX(xs) == [kind |-> "flat", items |-> xs]

NestedX(xss) == [kind |-> "nested", items |-> xss]

\* Array.isArray(xValues[0])
FirstIsArray(xValues) == xValues.kind = "nested" /\ Len(xValues.items) > 0

\* Every series with the x values of the first one.
seriesX_first(xValues, i) ==
    IF FirstIsArray(xValues) THEN xValues.items[1] ELSE xValues.items

\* The x values of series number i (counted from 1):
\* xValues[seriesIdx] || [] for an array of arrays, xValues itself otherwise.
seriesX(xValues, i) ==
    IF FirstIsArray(xValues)
    THEN IF i <= Len(xValues.items) THEN xValues.items[i] ELSE <<>>
    ELSE xValues.items

\* A rendered series; drawn is FALSE where renderPlots returns null for it.
NoSeries == [drawn |-> FALSE, points |-> <<>>, d |-> <<>>]

\* renderPlots(): per series the rendered points and the path data
\* "M x y L x y ...", with the coordinates of the path in toFixed(1).
renderPlots(p) ==
    [s \in 1..Len(p.yValues) |->
        LET sx == seriesX(p.xValues, s)
            sy == p.yValues[s]
        IN  IF Len(sx) < 2 \/ Len(sy) < 2 THEN NoSeries
            ELSE LET len == IF Len(sx) < Len(sy) THEN Len(sx) ELSE Len(sy)
                 IN  [drawn |-> TRUE,
                      points |-> [i \in 1..len |->
                                     [x |-> mapX(p, sx[i]), y |-> mapY(p, sy[i])]],
                      d |-> [i \in 1..len |->
                                [cmd |-> IF i = 1 THEN "M" ELSE "L",
                                 x |-> toFixed(mapX(p, sx[i]), Q(1)),
                                 y |-> toFixed(mapY(p, sy[i]), Q(1))]]]]

\* The svg element NumberPlane2D returns.
NumberPlane2D(p) ==
    [grid |-> renderGrid(p),
     xAxis |-> renderXAxis(p),
     yAxis |-> renderYAxis(p),
     origin |-> IF p.showOrigin
                THEN [drawn |-> TRUE, cx |-> mapX(p, Q(0)), cy |-> mapY(p, Q(0))]
                ELSE [drawn |-> FALSE, cx |-> NaN, cy |-> NaN],
     plots |-> renderPlots(p)]

(***************************************************************************)
(* NumberPlane2D rendered once for every configuration of a bounded input  *)
(* space                                                                   *)
(***************************************************************************)
\* The ends of a range are the integers of -MaxCoord..MaxCoord, in either
\* order and equal ends included; a series has up to MaxLen values.
MaxCoord == 2

MaxLen == 3

Ranges == {<<Q(a), Q(b)>> : a \in -MaxCoord..MaxCoord, b \in -MaxCoord..MaxCoord}

\* Ranges around 0, above 0, below 0, of span 0 and with min > max.
RangeSamples ==
    {<<Q(0), Q(1)>>, <<Q(-1), Q(1)>>, <<Q(1), Q(2)>>, <<Q(-2), Q(-1)>>,
     <<Q(1), Q(1)>>, <<Q(1), Q(0)>>}

\* width, height, padding
Rects == {<<Q(800), Q(500), Q(40)>>, <<Q(100), Q(60), Undefined>>}

\* The first n values of the x sequence 0, 5, 10, ... and of the y sequence
\* 0, 0.5, 1, ...
SampleX(n) == [i \in 1..n |-> Q(5 * (i - 1))]

SampleY(n) == [i \in 1..n |-> Frac(i - 1, 2)]

NoAxisConfig == [tickStep |-> Undefined, numberPrecision |-> Undefined]

NoGrid == [majorStep |-> Undefined, xMajorStep |-> Undefined, yMajorStep |-> Undefined]

\* Props with the axes and the grid left at their defaults.
PlaneProps(rect, xRange, yRange, xValues, yValues) ==
    [width |-> rect[1], height |-> rect[2], padding |-> rect[3],
     xRange |-> xRange, yRange |-> yRange,
     xAxisConfig |-> NoAxisConfig, yAxisConfig |-> NoAxisConfig, grid |-> NoGrid,
     xValues |-> xValues, yValues |-> yValues, showOrigin |-> TRUE]

\* Every x range with the sample y ranges and every y range with the sample
\* x ranges and with xRange = [0, 10], in every rectangle, with one series
\* of three points.
RangeConfigs ==
    {PlaneProps(r, xr, yr, FlatX(SampleX(3)), <<SampleY(3)>>) :
        r \in Rects, xr \in Ranges, yr \in RangeSamples}
    \cup
    {PlaneProps(r, xr, yr, FlatX(SampleX(3)), <<SampleY(3)>>) :
        r \in Rects, xr \in RangeSamples \cup {<<Q(0), Q(10)>>}, yr \in Ranges}

\* Series of every length over xRange = [0, 10] and yRange = [0, 1]: a
\* shared x sequence with two series, and one x sequence per series with a
\* third series that has none.
SeriesConfigs ==
    {PlaneProps(<<Q(800), Q(500), Q(40)>>, <<Q(0), Q(10)>>, <<Q(0), Q(1)>>,
                FlatX(SampleX(lx)), <<SampleY(ly), SampleY(MaxLen)>>) :
        lx \in 0..MaxLen, ly \in 0..MaxLen}
    \cup
    {PlaneProps(<<Q(800), Q(500), Q(40)>>, <<Q(0), Q(10)>>, <<Q(0), Q(1)>>,
                NestedX(<<SampleX(lx), SampleX(ly)>>),
                <<SampleY(ly), SampleY(lx), SampleY(2)>>) :
        lx \in 0..MaxLen, ly \in 0..MaxLen}

\* Given tick steps, grid steps and label precisions over every x range.
AxisConfigs ==
    {[PlaneProps(<<Q(100), Q(60), Undefined>>, xr, <<Q(0), Q(1)>>,
                 FlatX(SampleX(2)), <<SampleY(2)>>)
        EXCEPT !.xAxisConfig = [tickStep |-> t, numberPrecision |-> n],
               !.grid = [NoGrid EXCEPT !.majorStep = g],
               !.showOrigin = o] :
        xr \in Ranges, t \in {Q(1), Frac(1, 2)}, n \in {Undefined, Q(1), Q(2)},
        g \in {Undefined, Q(2)}, o \in BOOLEAN}

PlaneConfigs == RangeConfigs \cup SeriesConfigs \cup AxisConfigs

NoSvg == [grid |-> <<>>, xAxis |-> <<>>, yAxis |-> <<>>, origin |-> <<>>, plots |-> <<>>]

InitPlane ==
    /\ call \in {[fn |-> "NumberPlane2D", props |-> p] : p \in PlaneConfigs}
    /\ ret = NoSvg
    /\ pc = "mount"
    /\ props = <<>>
    /\ lprops = <<>>
    /\ frame = 0
    /\ out = NoOutput
    /\ deps = <<>>
    /\ updates = 0
    /\ observed = <<>>
    /\ preview = NoState
    /\ lines = <<>>
    /\ firstOut = <<>>
    /\ revisit = FALSE

\* The component is rendered with its props.
RenderPlane ==
    /\ pc = "mount"
    /\ pc' = "idle"
    /\ ret' = NumberPlane2D(call.props)
    /\ UNCHANGED <<call, props, lprops, frame, out, deps, updates, observed, preview,
                   lines, firstOut, revisit>>

NextPlane == RenderPlane

SpecPlane == InitPlane /\ [][NextPlane]_vars

(***************************************************************************)
(* Properties of NumberPlane2D                                             *)
(***************************************************************************)
\* The plane has been rendered.
Rendered == pc = "idle"

\* xMin < xMax, yMin < yMax, width and height larger than twice the padding.
ValidPlane(p) ==
    /\ Lt(Plot(p).xMin, Plot(p).xMax)
    /\ Lt(Plot(p).yMin, Plot(p).yMax)
    /\ Gt(Plot(p).plotW, Q(0))
    /\ Gt(Plot(p).plotH, Q(0))

\* World values inside and outside the ranges.
WorldSamples == {Q(a) : a \in (-MaxCoord - 1)..(MaxCoord + 1)} \cup {Frac(1, 2)}

\* C11: for a valid range and rectangle mapX is strictly increasing in world
\* X and mapY strictly decreasing in world Y, mapX(xMin) and mapX(xMax) are
\* the left and right plot edges, mapY(yMin) and mapY(yMax) the bottom and
\* top plot edges; the rendered points of a series are ordered accordingly.
C11_MapOrientation ==
    (Rendered /\ ValidPlane(call.props)) =>
        LET p == call.props
            c == Plot(p)
        IN  /\ \A a, b \in WorldSamples :
                   Lt(a, b) => /\ Lt(mapX(p, a), mapX(p, b))
                               /\ Gt(mapY(p, a), mapY(p, b))
            /\ mapX(p, c.xMin) = c.plotX
            /\ mapX(p, c.xMax) = Add(c.plotX, c.plotW)
            /\ mapY(p, c.yMin) = Add(c.plotY, c.plotH)
            /\ mapY(p, c.yMax) = c.plotY
            /\ \A s \in DOMAIN ret.plots :
                   ret.plots[s].drawn =>
                       \A i, j \in DOMAIN ret.plots[s].points :
                           /\ Lt(seriesX(p.xValues, s)[i], seriesX(p.xValues, s)[j]) =>
                                  Lt(ret.plots[s].points[i].x, ret.plots[s].points[j].x)
                           /\ Lt(p.yValues[s][i], p.yValues[s][j]) =>
                                  Gt(ret.plots[s].points[i].y, ret.plots[s].points[j].y)

C11_Witness ==
    /\ Rendered
    /\ ValidPlane(call.props)
    /\ Lt(Plot(call.props).xMin, Q(0))
    /\ Gt(Plot(call.props).yMin, Q(-1))
    /\ ret.plots[1].drawn
    /\ Lt(ret.plots[1].points[1].x, ret.plots[1].points[2].x)
    /\ Gt(ret.plots[1].points[1].y, ret.plots[1].points[2].y)
    /\ Lt(mapX(call.props, Q(0)), mapX(call.props, Q(1)))
    /\ mapY(call.props, Plot(call.props).yMax) = Plot(call.props).plotY

\* xRange = [0, 10], yRange = [0, 1], an 800 x 500 rectangle, padding 40 and
\* the series x = [0, 5, 10], y = [0, 0.5, 1].
ScenarioProps ==
    PlaneProps(<<Q(800), Q(500), Q(40)>>, <<Q(0), Q(10)>>, <<Q(0), Q(1)>>,
               FlatX(<<Q(0), Q(5), Q(10)>>), <<<<Q(0), Frac(1, 2), Q(1)>>>>)

Point(x, y) == [x |-> x, y |-> y]

\* The corners of the plot area on the screen (y grows downwards).
TopLeft(p) == Point(Plot(p).plotX, Plot(p).plotY)

TopRight(p) == Point(Add(Plot(p).plotX, Plot(p).plotW), Plot(p).plotY)

BottomLeft(p) == Point(Plot(p).plotX, Add(Plot(p).plotY, Plot(p).plotH))

BottomRight(p) == Point(Add(Plot(p).plotX, Plot(p).plotW), Add(Plot(p).plotY, Plot(p).plotH))

\* a, b and c lie on one straight line.
Collinear(a, b, c) ==
    NumEq(Mul(Sub(b.x, a.x), Sub(c.y, a.y)), Mul(Sub(b.y, a.y), Sub(c.x, a.x)))

\* The scenario has been rendered and its series drawn with three points.
ScenarioDrawn ==
    /\ Rendered
    /\ call.props = ScenarioProps
    /\ ret.plots[1].drawn
    /\ Len(ret.plots[1].points) = 3

\* C12 as stated: the three points of the scenario are collinear and the
\* diagonal joins the top-left and the bottom-right corner of the plot area.
C12_TopLeftToBottomRight ==
    (Rendered /\ call.props = ScenarioProps) =>
        LET pts == ret.plots[1].points
        IN  /\ ScenarioDrawn
            /\ Collinear(pts[1], pts[2], pts[3])
            /\ {pts[1], pts[3]} = {TopLeft(ScenarioProps), BottomRight(ScenarioProps)}

\* C12 (amended): the three points of the scenario are (40, 460), (400, 250)
\* and (760, 40): collinear, from the bottom-left corner of the plot area to
\* its top-right corner, and the path data is M 40.0 460.0 L 400.0 250.0 L 760.0 40.0.
C12_BottomLeftToTopRight ==
    (Rendered /\ call.props = ScenarioProps) =>
        LET pts == ret.plots[1].points
        IN  /\ ScenarioDrawn
            /\ pts = <<Point(Q(40), Q(460)), Point(Q(400), Q(250)), Point(Q(760), Q(40))>>
            /\ Collinear(pts[1], pts[2], pts[3])
            /\ pts[1] = BottomLeft(ScenarioProps)
            /\ pts[3] = TopRight(ScenarioProps)
            /\ ret.plots[1].d =
                   <<[cmd |-> "M", x |-> DecimalText(FALSE, 400, 1), y |-> DecimalText(FALSE, 4600, 1)],
                     [cmd |-> "L", x |-> DecimalText(FALSE, 4000, 1), y |-> DecimalText(FALSE, 2500, 1)],
                     [cmd |-> "L", x |-> DecimalText(FALSE, 7600, 1), y |-> DecimalText(FALSE, 400, 1)]>>

C12_Witness ==
    /\ ScenarioDrawn
    /\ ret.plots[1].points[2] = Point(Q(400), Q(250))
    /\ ret.plots[1].points[1].y = Add(Plot(call.props).plotY, Plot(call.props).plotH)

(***************************************************************************)
(* The helpers of NumberPlane2D applied to arguments of a bounded input    *)
(* space: getNiceStep, getTicks and formatNumber                           *)
(***************************************************************************)
\* Arguments are the fractions a/b with |a| <= MaxNum and 1 <= b <= MaxDen;
\* the ranges of getNiceStep are these times 10^e with |e| <= MaxDecade and
\* its targetTicks are 1..MaxTargetTicks; precisions are 0..MaxPrecision.
MaxNum == 3

MaxDen == 2

MaxDecade == 2

MaxTargetTicks == 8

MaxPrecision == 2

Fractions == {Frac(a, b) : a \in -MaxNum..MaxNum, b \in 1..MaxDen}

Call(fn, args) == [fn |-> fn, args |-> args]

\* getNiceStep(range, targetTicks), with ranges below, at and above 0.
NiceStepCalls ==
    {Call("getNiceStep", <<Mul(r, Pow10(Q(e))), Q(n)>>) :
        r \in {f \in Fractions : Ge(f, Q(-1))}, e \in -MaxDecade..MaxDecade,
        n \in 1..MaxTargetTicks}

\* getTicks(min, max, step) with step >= 0 (a negative step never leaves the
\* loop), and the step 1 + 1e-9 over [0, 1].
TickCalls ==
    {Call("getTicks", <<lo, hi, s>>) :
        lo \in Fractions, hi \in Fractions, s \in {f \in Fractions : Ge(f, Q(0))}}
    \cup {Call("getTicks", <<Q(0), Q(1), Add(Q(1), Tolerance)>>)}

\* formatNumber(num, precision), precision given or left out.
FormatCalls ==
    {Call("formatNumber", <<v, n>>) :
        v \in Fractions \cup {Frac(5, 4), Frac(-1, 8)},
        n \in {Undefined} \cup {Q(k) : k \in 0..MaxPrecision}}

InitTicks ==
    /\ call \in NiceStepCalls \cup TickCalls \cup FormatCalls
    /\ ret = <<>>
    /\ pc = "call"
    /\ props = <<>>
    /\ lprops = <<>>
    /\ frame = 0
    /\ out = NoOutput
    /\ deps = <<>>
    /\ updates = 0
    /\ observed = <<>>
    /\ preview = NoState
    /\ lines = <<>>
    /\ firstOut = <<>>
    /\ revisit = FALSE

\* The call returns and leaves everything but its result alone.
Return(value) ==
    /\ pc = "call"
    /\ pc' = "return"
    /\ ret' = value
    /\ UNCHANGED <<call, props, lprops, frame, out, deps, updates, observed, preview,
                   lines, firstOut, revisit>>

CallGetNiceStep ==
    /\ call.fn = "getNiceStep"
    /\ Return(getNiceStep(call.args[1], call.args[2]))

CallGetTicks ==
    /\ call.fn = "getTicks"
    /\ Return(getTicks(call.args[1], call.args[2], call.args[3]))

CallFormatNumber ==
    /\ call.fn = "formatNumber"
    /\ Return(formatNumber(call.args[1], call.args[2]))

NextTicks ==
    \/ CallGetNiceStep
    \/ CallGetTicks
    \/ CallFormatNumber

SpecTicks == InitTicks /\ [][NextTicks]_vars

(***************************************************************************)
(* Properties of getTicks, formatNumber and getNiceStep                    *)
(***************************************************************************)
\* fn has returned.
Returned(fn) == pc = "return" /\ call.fn = fn

\* ticks are the multiples k * step from ceil(min / step) * step on, one
\* after the other and strictly ascending.
ConsecutiveMultiples(ticks, min, step) ==
    LET k0 == MathCeil(Div(min, step))
    IN  /\ \A i \in DOMAIN ticks : ticks[i] = Mul(Add(k0, Q(i - 1)), step)
        /\ \A i, j \in DOMAIN ticks : i < j => Lt(ticks[i], ticks[j])

\* The multiple that would follow the last tick.
NextMultiple(ticks, min, step) ==
    Mul(Add(MathCeil(Div(min, step)), Q(Len(ticks))), step)

NearestToZero(min, max) ==
    IF Gt(min, Q(0)) THEN min ELSE IF Lt(max, Q(0)) THEN max ELSE Q(0)

\* C14: for valid ranges the X-axis line runs across the plot rectangle at
\* mapY(0) when 0 is in yRange and at the mapped end of yRange nearest to 0
\* otherwise, the Y-axis line likewise at mapX(0) or the mapped end of
\* xRange nearest to 0; both lie within the plot rectangle.
C14_AxesInsidePlot ==
    (Rendered /\ ValidPlane(call.props)) =>
        LET p == call.props
            c == Plot(p)
            xl == ret.xAxis.line
            yl == ret.yAxis.line
            axisY == mapY(p, MathMin(MathMax(Q(0), c.yMin), c.yMax))
            axisX == mapX(p, MathMin(MathMax(Q(0), c.xMin), c.xMax))
        IN  /\ xl = Line(c.plotX, axisY, Add(c.plotX, c.plotW), axisY)
            /\ yl = Line(axisX, c.plotY, axisX, Add(c.plotY, c.plotH))
            /\ axisY = mapY(p, NearestToZero(c.yMin, c.yMax))
            /\ axisX = mapX(p, NearestToZero(c.xMin, c.xMax))
            /\ Le(c.plotY, xl.y1) /\ Le(xl.y1, Add(c.plotY, c.plotH))
            /\ Le(c.plotX, yl.x1) /\ Le(yl.x1, Add(c.plotX, c.plotW))

C14_Witness ==
    /\ Rendered
    /\ ValidPlane(call.props)
    /\ Gt(Plot(call.props).yMin, Q(0))
    /\ Lt(Plot(call.props).xMax, Q(0))
    /\ ret.xAxis.line.y1 = Add(Plot(call.props).plotY, Plot(call.props).plotH)
    /\ ret.yAxis.line.x1 = Add(Plot(call.props).plotX, Plot(call.props).plotW)
    /\ ret.xAxis.line.y1 # mapY(call.props, Q(0))
    /\ ret.yAxis.line.x1 # mapX(call.props, Q(0))

\* The x sequence of series s: the shared one when xValues is flat, the
\* s-th one (none: empty) when xValues is an array of arrays.
XOfSeries(p, s) ==
    IF p.xValues.kind = "flat" THEN p.xValues.items
    ELSE IF s <= Len(p.xValues.items) THEN p.xValues.items[s]
    ELSE <<>>

Min(a, b) == IF a < b THEN a ELSE b

\* C15 as stated: every series is emitted with exactly
\* min(len(x_i), len(y_i)) points.
C15_MinLengthPoints ==
    Rendered =>
        \A s \in DOMAIN call.props.yValues :
            /\ s \in DOMAIN ret.plots
            /\ Len(ret.plots[s].points) =
                   Min(Len(XOfSeries(call.props, s)), Len(call.props.yValues[s]))

\* C15 (amended): a series with at least two x values and at least two y
\* values is emitted with exactly min(len(x_i), len(y_i)) points, the images
\* of the first pairs; a series with fewer values is not drawn; nothing
\* raises an error.
C15_MinLengthPointsFromTwo ==
    Rendered =>
        /\ DOMAIN ret.plots = DOMAIN call.props.yValues
        /\ \A s \in DOMAIN call.props.yValues :
               LET sx == XOfSeries(call.props, s)
                   sy == call.props.yValues[s]
                   n == Min(Len(sx), Len(sy))
               IN  IF Len(sx) >= 2 /\ Len(sy) >= 2
                   THEN /\ ret.plots[s].drawn
                        /\ Len(ret.plots[s].points) = n
                        /\ Len(ret.plots[s].d) = n
                        /\ \A i \in 1..n :
                               ret.plots[s].points[i] =
                                   Point(mapX(call.props, sx[i]), mapY(call.props, sy[i]))
                   ELSE ret.plots[s] = NoSeries

C15_Witness ==
    /\ Rendered
    /\ call.props.xValues.kind = "nested"
    /\ Len(call.props.yValues) = 3
    /\ Len(XOfSeries(call.props, 1)) = 2
    /\ Len(call.props.yValues[1]) = 3
    /\ Len(ret.plots[1].points) = 2
    /\ Len(XOfSeries(call.props, 2)) = 3
    /\ Len(ret.plots[2].points) = 2
    /\ ~ret.plots[3].drawn

\* The precision the caller asked for (0 when left out).
AskedPrecision(n) == IF n = Undefined THEN 0 ELSE n[1]

\* C16: formatNumber renders an integer value without decimals and a
\* non-integer value with exactly the caller-specified number of decimals.
C16_IntegerPlainElsePrecision ==
    Returned("formatNumber") =>
        /\ ret.text = "decimal"
        /\ IF IsInteger(call.args[1])
           THEN ret = toString(call.args[1])
           ELSE ret.decimals = AskedPrecision(call.args[2])

\* xRange or yRange has min = max.
DegenerateRange(p) ==
    \/ NumEq(Plot(p).xMin, Plot(p).xMax)
    \/ NumEq(Plot(p).yMin, Plot(p).yMax)

FiniteLine(l) == IsFinite(l.x1) /\ IsFinite(l.y1) /\ IsFinite(l.x2) /\ IsFinite(l.y2)

\* C17: with a degenerate range the plane emits no coordinate that comes
\* from a division by the zero span: no series is drawn with such points
\* and no axis line is placed by such a value.
C17_NoDivisionByZeroSpan ==
    (Rendered /\ DegenerateRange(call.props)) =>
        /\ \A s \in DOMAIN ret.plots :
               \A i \in DOMAIN ret.plots[s].points :
                   IsFinite(ret.plots[s].points[i].x) /\ IsFinite(ret.plots[s].points[i].y)
        /\ FiniteLine(ret.xAxis.line)
        /\ FiniteLine(ret.yAxis.line)

\* s = m * 10^k for an integer k in -Decades..Decades.
IsTimesPowerOfTen(s, m, Decades) ==
    \E k \in -Decades..Decades : s = Mul(Q(m), Pow10(Q(k)))

\* C18: for range > 0 and targetTicks n > 0 getNiceStep returns a step s > 0
\* of the form m * 10^k with m in {1, 2, 5, 10}, where 10^k <= range/n <
\* 10^(k+1) and m is 1, 2, 5 or 10 as range/n/10^k is below 1.5, below 3.5,
\* below 7.5 or not; and range/s lies in [0.5 * n, 2 * n].
C18_NiceStepForm ==
    (Returned("getNiceStep") /\ Gt(call.args[1], Q(0)) /\ Gt(call.args[2], Q(0))) =>
        LET range == call.args[1]
            n == call.args[2]
            raw == Div(range, n)
        IN  /\ IsFinite(ret) /\ Gt(ret, Q(0))
            /\ \E m \in {1, 2, 5, 10} : IsTimesPowerOfTen(ret, m, MaxDecade + 2)
            /\ \E k \in (-MaxDecade - 2)..(MaxDecade + 2) :
                   LET norm == Div(raw, Pow10(Q(k)))
                       m == IF Lt(norm, Frac(3, 2)) THEN 1
                            ELSE IF Lt(norm, Frac(7, 2)) THEN 2
                            ELSE IF Lt(norm, Frac(15, 2)) THEN 5
                            ELSE 10
                   IN  /\ Le(Q(1), norm) /\ Lt(norm, Q(10))
                       /\ ret = Mul(Q(m), Pow10(Q(k)))
            /\ Le(Mul(Frac(1, 2), n), Div(range, ret))
            /\ Le(Div(range, ret), Mul(Q(2), n))

C18_Witness ==
    /\ Returned("getNiceStep")
    /\ call.args = <<Frac(3, 200), Q(8)>>
    /\ ret = Frac(2, 1000)

\* C19: called with range <= 0, getNiceStep hands no step to its caller that
\* is 0, negative or not a number (it signals a DomainError instead).
C19_NoStepForEmptyRange ==
    (Returned("getNiceStep") /\ Le(call.args[1], Q(0))) =>
        IsFinite(ret) /\ Gt(ret, Q(0))

(***************************************************************************)
(* The pressure colour ramps of HydraulicLines and HydraulicCylinder2D     *)
(* applied to pressures of a bounded input space                           *)
(***************************************************************************)
\* HydraulicCylinder2D: getColor(p) with max = maxP || 300, maxP = 300 by default.
getColorCylinder(maxPArg, p) ==
    LET maxP == IF maxPArg = Undefined THEN Q(300) ELSE maxPArg
    IN  getColor(OrElse(maxP, Q(300)), p)

\* ServoValve2D: getColor(p), copied from HydraulicCylinder2D.
getColorServo(maxPArg, p) ==
    LET maxP == IF maxPArg = Undefined THEN Q(300) ELSE maxPArg
    IN  getColor(OrElse(maxP, Q(300)), p)

\* VerticalColorBar: calcIndicator(val) for a bar of the given maxValue and height.
calcIndicator(maxValue, val, height) ==
    LET safeValue == MathMax(Q(0), MathMin(val, maxValue))
        t == IF Gt(maxValue, Q(0)) THEN Div(safeValue, maxValue) ELSE Q(0)
    IN  [yPos |-> Sub(height, Mul(t, height)),
         valueText |-> IF Ge(maxValue, Q(1000))
                       THEN toString(Q(MathRound(safeValue)))
                       ELSE toFixed(safeValue, Q(1))]

\* Maximum pressures are the integers of -1..MaxPressure and 100, 300,
\* pressures the halves from -1 to MaxPressure + 1 and 33, 66, 99, 150, 198,
\* 300, 400 (33/100 and 99/300 are the stop offset 0.33).
MaxPressure == 4

MaxPressures == {Q(m) : m \in -1..MaxPressure} \cup {Q(100), Q(300)}

Pressures ==
    {Frac(k, 2) : k \in -2..(2 * MaxPressure + 2)}
    \cup {Q(33), Q(66), Q(99), Q(150), Q(198), Q(300), Q(400)}

ColorCalls ==
    {Call("HydraulicLines.getColor", <<m, p>>) : m \in MaxPressures, p \in Pressures}
    \cup
    {Call("HydraulicCylinder2D.getColor", <<m, p>>) :
        m \in MaxPressures \cup {Undefined}, p \in Pressures}
    \cup
    {Call("ServoValve2D.getColor", <<m, p>>) :
        m \in MaxPressures \cup {Undefined}, p \in Pressures}
    \cup
    {Call("VerticalColorBar.calcIndicator", <<m, p, Q(400)>>) :
        m \in MaxPressures \cup {Q(1000)}, p \in Pressures}

InitColor ==
    /\ call \in ColorCalls
    /\ ret = <<>>
    /\ pc = "call"
    /\ props = <<>>
    /\ lprops = <<>>
    /\ frame = 0
    /\ out = NoOutput
    /\ deps = <<>>
    /\ updates = 0
    /\ observed = <<>>
    /\ preview = NoState
    /\ lines = <<>>
    /\ firstOut = <<>>
    /\ revisit = FALSE

CallLinesGetColor ==
    /\ call.fn = "HydraulicLines.getColor"
    /\ Return(getColor(call.args[1], call.args[2]))

CallCylinderGetColor ==
    /\ call.fn = "HydraulicCylinder2D.getColor"
    /\ Return(getColorCylinder(call.args[1], call.args[2]))

CallServoGetColor ==
    /\ call.fn = "ServoValve2D.getColor"
    /\ Return(getColorServo(call.args[1], call.args[2]))

CallCalcIndicator ==
    /\ call.fn = "VerticalColorBar.calcIndicator"
    /\ Return(calcIndicator(call.args[1], call.args[2], call.args[3]))

NextColor ==
    \/ CallLinesGetColor
    \/ CallCylinderGetColor
    \/ CallServoGetColor
    \/ CallCalcIndicator

SpecColor == InitColor /\ [][NextColor]_vars

(***************************************************************************)
(* Properties of the colour ramps                                          *)
(***************************************************************************)
\* "#0000ff"
HexBlue == <<0, 0, 0, 0, 15, 15>>

\* A colour ramp has returned.
ColorReturned ==
    /\ pc = "return"
    /\ call.fn \in {"HydraulicLines.getColor", "HydraulicCylinder2D.getColor",
                    "ServoValve2D.getColor"}

\* The max the ramp of the call works with.
RampMax ==
    IF call.fn \in {"HydraulicCylinder2D.getColor", "ServoValve2D.getColor"}
    THEN OrElse(IF call.args[1] = Undefined THEN Q(300) ELSE call.args[1], Q(300))
    ELSE call.args[1]

\* C20: for max > 0 the ramp returns the first stop colour, blue (0, 0, 255),
\* for the value 0 and every value below 0, and the last stop colour, red
\* (255, 0, 0), for the value max and every value above max.
C20_RampEnds ==
    (ColorReturned /\ Gt(RampMax, Q(0))) =>
        /\ Le(call.args[2], Q(0)) => ret = HexBlue
        /\ Ge(call.args[2], RampMax) => ret = rgbToHex(Q(255), Q(0), Q(0))

C20_Witness ==
    /\ ColorReturned
    /\ call.fn = "HydraulicLines.getColor"
    /\ Gt(RampMax, Q(0))
    /\ Lt(call.args[2], Q(0))
    /\ ret = HexBlue

\* Channel c (1 = red, 2 = green, 3 = blue) of a colour "#rrggbb".
Channel(hex, c) == 16 * hex[2 * c - 1] + hex[2 * c]

\* A colour of six hexadecimal digits.
IsRgbHex(hex) == Len(hex) = 6 /\ \A i \in 1..6 : hex[i] \in 0..15

\* The normalised value of the call: clamp(value, 0, max) / max.
RampT == Div(MathMax(Q(0), MathMin(call.args[2], RampMax)), RampMax)

\* C21: for max > 0 every channel of the returned colour lies between the
\* channels of two stops that bracket the normalised value t, also when t
\* is a stop offset and two segments match.
C21_NoOvershoot ==
    (ColorReturned /\ Gt(RampMax, Q(0))) =>
        /\ IsRgbHex(ret)
        /\ \E i \in 1..(Len(ColorStops) - 1) :
               /\ Le(ColorStops[i].offset, RampT)
               /\ Le(RampT, ColorStops[i + 1].offset)
               /\ \A c \in 1..3 :
                      LET a == ColorStops[i].color[c]
                          b == ColorStops[i + 1].color[c]
                      IN  /\ Min(a, b) <= Channel(ret, c)
                          /\ Channel(ret, c) <= (IF a < b THEN b ELSE a)

C21_Witness ==
    /\ ColorReturned
    /\ call.fn = "ServoValve2D.getColor"
    /\ Gt(RampMax, Q(0))
    /\ RampT = ColorStops[2].offset
    /\ ret = rgbToHex(Q(0), Q(255), Q(0))

IndicatorReturned == pc = "return" /\ call.fn = "VerticalColorBar.calcIndicator"

\* C22: with a configured maximum <= 0 the ramp uses t = 0 for every value:
\* getColor returns the first stop (blue) and the indicator of the colour
\* bar stays at the bottom (yPos = height).
C22_NonPositiveMaxIsBlue ==
    /\ (ColorReturned /\ call.args[1] # Undefined /\ Le(call.args[1], Q(0))) =>
           ret = HexBlue
    /\ (IndicatorReturned /\ Le(call.args[1], Q(0))) => ret.yPos = call.args[3]

(***************************************************************************)
(* getPointOnPolyline on every short path over a few points                *)
(***************************************************************************)
\* A path has at most MaxPoints points.
MaxPoints == 3

\* The corners of a 3 x 4 rectangle: all mutual distances (3, 4, 5) are
\* rational, so Math.sqrt is exact on every segment.
PathPoints ==
    {[x |-> Q(0), y |-> Q(0)], [x |-> Q(3), y |-> Q(0)],
     [x |-> Q(3), y |-> Q(4)], [x |-> Q(0), y |-> Q(4)]}

PointLists == UNION {[1..n -> PathPoints] : n \in 0..MaxPoints}

\* The 2-point path (0,0)-(10,0).
TenPath == <<[x |-> Q(0), y |-> Q(0)], [x |-> Q(10), y |-> Q(0)]>>

\* The path string "M x,y L x,y ..." of a list of points, as tokens.
RECURSIVE PathString(_)
PathString(pts) ==
    IF pts = <<>> THEN <<>>
    ELSE <<CmdTok, SepTok, <<"num", pts[1].x>>, SepTok, <<"num", pts[1].y>>>>
         \o (IF Len(pts) = 1 THEN <<>> ELSE <<SepTok>> \o PathString(Tail(pts)))

\* Path parameters: the quarters of [0,1], the thirds, two values outside
\* the interval and NaN.
PathParams ==
    {Frac(k, 4) : k \in -1..5} \cup {Frac(1, 3), Frac(2, 3), NaN}

PathCalls ==
    {Call("getPointOnPolyline", <<PathString(pts), t, pts>>) :
        pts \in PointLists \cup {TenPath}, t \in PathParams}
    \cup
    {Call("getPointOnPolyline", <<<<CmdTok>>, t, <<>>>>) : t \in PathParams}

InitPath ==
    /\ call \in PathCalls
    /\ ret = <<>>
    /\ pc = "call"
    /\ props = <<>>
    /\ lprops = <<>>
    /\ frame = 0
    /\ out = NoOutput
    /\ deps = <<>>
    /\ updates = 0
    /\ observed = <<>>
    /\ preview = NoState
    /\ lines = <<>>
    /\ firstOut = <<>>
    /\ revisit = FALSE

CallGetPointOnPolyline ==
    /\ call.fn = "getPointOnPolyline"
    /\ Return(getPointOnPolyline(call.args[1], call.args[2]))

NextPath == CallGetPointOnPolyline

SpecPath == InitPath /\ [][NextPath]_vars

\* The points the path string of the call was written from.
PathPts == call.args[3]

PathT == call.args[2]

\* Math.sqrt of the squared distance of two points.
Distance(p, q) ==
    MathSqrt(Add(Mul(Sub(q.x, p.x), Sub(q.x, p.x)), Mul(Sub(q.y, p.y), Sub(q.y, p.y))))

\* The length of the polyline through the first n points.
RECURSIVE LengthUpTo(_, _)
LengthUpTo(pts, n) ==
    IF n <= 1 THEN Q(0) ELSE Add(LengthUpTo(pts, n - 1), Distance(pts[n - 1], pts[n]))

TotalLength(pts) == LengthUpTo(pts, Len(pts))

Distinct(pts) == \E i, j \in DOMAIN pts : pts[i] # pts[j]

InSegment(pts, i, target) ==
    /\ Le(LengthUpTo(pts, i), target)
    /\ Le(target, LengthUpTo(pts, i + 1))

\* C24: for total length L > 0 and t in [0,1] the returned point lies on
\* the earliest segment whose inclusive cumulative range contains t * L, at
\* the distance t * L from the first point along the polyline; the path
\* (0,0)-(10,0) at t = 0.5 gives (5,0).
C24_ArcLength ==
    (/\ Returned("getPointOnPolyline")
     /\ Len(PathPts) >= 2
     /\ Gt(TotalLength(PathPts), Q(0))
     /\ Le(Q(0), PathT) /\ Le(PathT, Q(1))) =>
        LET target == Mul(PathT, TotalLength(PathPts))
        IN  /\ \E i \in 1..(Len(PathPts) - 1) :
                   /\ InSegment(PathPts, i, target)
                   /\ \A j \in 1..(i - 1) : ~InSegment(PathPts, j, target)
                   /\ Add(LengthUpTo(PathPts, i), Distance(PathPts[i], ret)) = target
                   /\ Add(Distance(PathPts[i], ret), Distance(ret, PathPts[i + 1]))
                          = Distance(PathPts[i], PathPts[i + 1])
            /\ (PathPts = TenPath /\ PathT = Frac(1, 2)) => ret = [x |-> Q(5), y |-> Q(0)]

\* A point inside the second segment of a three-point path.
C24_Witness ==
    /\ Returned("getPointOnPolyline")
    /\ PathPts = <<[x |-> Q(0), y |-> Q(0)], [x |-> Q(3), y |-> Q(0)], [x |-> Q(3), y |-> Q(4)]>>
    /\ PathT = Frac(3, 4)
    /\ ret = [x |-> Q(3), y |-> Frac(9, 4)]

\* A path without two points, or whose points all coincide.
Degenerate(pts) == Len(pts) < 2 \/ ~Distinct(pts)

\* C25: on a degenerate path every t gives a defined point: (0,0) for fewer
\* than 2 points, the first point when all points coincide.
C25_DegenerateFallback ==
    (Returned("getPointOnPolyline") /\ Degenerate(PathPts)) =>
        ret = IF Len(PathPts) < 2 THEN [x |-> Q(0), y |-> Q(0)] ELSE PathPts[1]

\* Three coinciding points away from the origin, t outside [0,1].
C25_Witness ==
    /\ Returned("getPointOnPolyline")
    /\ Len(PathPts) = 3
    /\ ~Distinct(PathPts)
    /\ PathPts[1] = [x |-> Q(3), y |-> Q(4)]
    /\ PathT = Frac(5, 4)
    /\ ret = PathPts[1]

(***************************************************************************)
(* renderDots over consecutive frames, the flow prop changing in between   *)
(***************************************************************************)
\* A run renders MaxDotSteps frames after its first one.
MaxDotSteps == 4

\* First frames: 0, 12 (dot 7 passes the end of the path at frame 13) and
\* 99 (frame * speed reaches 1 at frame 100).
DotStarts == {0, 12, 99}

DotFrames == UNION {s..(s + MaxDotSteps) : s \in DotStarts}

\* maxFlow and flow of a render: with the default maxFlow = 100, flows of
\* both signs inside and outside [-maxFlow, maxFlow] and below the
\* threshold 0.01; with maxFlow = 0.01, flows at the threshold.
DotProps ==
    {<<Q(100), flow>> :
        flow \in {Q(-200), Q(-100), Q(-50), Frac(-1, 200), Q(0), Frac(1, 200), Q(50), Q(100)}}
    \cup
    {<<Frac(1, 100), flow>> : flow \in {Frac(-1, 100), Frac(1, 100)}}

DotCall(flow) == Call("renderDots", <<pathA, flow>>)

InitDots ==
    /\ \E dp \in DotProps :
           /\ lprops = [maxFlow |-> dp[1]]
           /\ call = DotCall(dp[2])
    /\ frame \in DotStarts
    /\ ret = <<>>
    /\ pc = "mount"
    /\ props = <<>>
    /\ out = NoOutput
    /\ deps = <<>>
    /\ updates = 0
    /\ observed = <<>>
    /\ preview = NoState
    /\ lines = <<>>
    /\ firstOut = <<>>
    /\ revisit = FALSE

\* The first render: renderDots(path, flow) at the current frame.
RenderDots ==
    /\ pc = "mount"
    /\ pc' = "rendered"
    /\ ret' = renderDots(lprops.maxFlow, frame, call.args[1], call.args[2])
    /\ UNCHANGED <<call, props, lprops, frame, out, deps, updates, observed, preview,
                   lines, firstOut, revisit>>

\* The render of the next frame, with the props of that frame.
RenderNextFrame ==
    /\ pc = "rendered"
    /\ frame + 1 \in DotFrames
    /\ frame' = frame + 1
    /\ \E dp \in DotProps :
           /\ lprops' = [maxFlow |-> dp[1]]
           /\ call' = DotCall(dp[2])
    /\ ret' = renderDots(lprops'.maxFlow, frame', call'.args[1], call'.args[2])
    /\ UNCHANGED <<pc, props, out, deps, updates, observed, preview,
                   lines, firstOut, revisit>>

NextDots == RenderDots \/ RenderNextFrame

SpecDots == InitDots /\ [][NextDots]_vars

\* wrap01: the fractional part v - floor(v), in [0,1) for every real v.
Wrap01(v) == Sub(v, Q(Floor(v)))

\* clamp(flow / maxFlow, -1, 1)
NormFlow(flow, maxFlow) ==
    LET q == Div(flow, maxFlow)
    IN  IF Lt(q, Q(-1)) THEN Q(-1) ELSE IF Gt(q, Q(1)) THEN Q(1) ELSE q

\* t_i = wrap01(frame * clamp(flow / maxFlow, -1, 1) * 0.01 + i / 8)
MarkerT(f, flow, maxFlow, i) ==
    Wrap01(Add(Mul(Q(f), Mul(NormFlow(flow, maxFlow), Frac(1, 100))), Frac(i, 8)))

DotsRendered == pc = "rendered"

ForwardStep(t0, t1) == Le(Wrap01(Sub(t1, t0)), Frac(1, 100))

\* C30: between consecutive frames f and f + 1 at which markers are shown,
\* every marker's t moves in the direction of the flow's sign by at most
\* 0.01 in wrap-around distance, also when the flow of frame f + 1 differs
\* from the flow of frame f (a move in either direction is accepted when
\* the two flows have opposite signs).
C30_StepFollowsFlow ==
    [][(/\ pc = "rendered" /\ pc' = "rendered"
        /\ frame' = frame + 1
        /\ lprops' = lprops
        /\ ret # <<>> /\ ret' # <<>>) =>
          \A i \in 0..(numDots - 1) :
              LET t0 == DotT(lprops.maxFlow, frame, call.args[2], i)
                  t1 == DotT(lprops.maxFlow, frame', call'.args[2], i)
                  forward == Gt(call.args[2], Q(0)) \/ Gt(call'.args[2], Q(0))
                  backward == Lt(call.args[2], Q(0)) \/ Lt(call'.args[2], Q(0))
              IN  \/ forward /\ ForwardStep(t0, t1)
                  \/ backward /\ ForwardStep(t1, t0)]_vars

(***************************************************************************)
(* ServoValve2D: spool geometry                                            *)
(***************************************************************************)
vbW == 900

bodyPadding == 10

\* The horizontal extent { x, width } of a rectangle.
Span(x, width) == [x |-> x, width |-> width]

\* ServoValve2D({ spool }): the horizontal extents of the lands, of the
\* coloured bore regions and of the port channels A and B.
ServoValve2D(spoolArg) ==
    LET spool == IF spoolArg = Undefined THEN Q(0) ELSE spoolArg
        clampedSpool == MathMax(Q(-100), MathMin(Q(100), spool))
        bodyW == Q(vbW - 2 * bodyPadding)
        bodyX == Q(bodyPadding)
        chamberWidth == Div(bodyW, Q(9))
        maxTravel == Mul(chamberWidth, Frac(8, 10))
        currentOffset == Mul(Div(clampedSpool, Q(100)), maxTravel)
        landWidth == chamberWidth
        land2BaseX == Add(bodyX, Mul(bodyW, Frac(3, 10)))
        land2CenterX == Add(land2BaseX, currentOffset)
        land2Left == Sub(land2CenterX, Div(landWidth, Q(2)))
        land2Right == Add(land2CenterX, Div(landWidth, Q(2)))
        land3BaseX == Add(bodyX, Mul(bodyW, Frac(7, 10)))
        land3CenterX == Add(land3BaseX, currentOffset)
        land3Left == Sub(land3CenterX, Div(landWidth, Q(2)))
        land3Right == Add(land3CenterX, Div(landWidth, Q(2)))
        boreLeftX == Add(bodyX, Q(20))
        boreRightX == Sub(Add(bodyX, bodyW), Q(20))
    IN  [clampedSpool |-> clampedSpool,
         tLeft |-> Span(boreLeftX, MathMax(Q(0), Sub(land2Left, boreLeftX))),
         pCenter |-> Span(land2Right, MathMax(Q(0), Sub(land3Left, land2Right))),
         tRight |-> Span(land3Right, MathMax(Q(0), Sub(boreRightX, land3Right))),
         land2 |-> Span(Add(Sub(Add(bodyX, Mul(bodyW, Frac(3, 10))),
                                Div(chamberWidth, Q(2))), currentOffset), chamberWidth),
         land3 |-> Span(Add(Sub(Add(bodyX, Mul(bodyW, Frac(7, 10))),
                                Div(chamberWidth, Q(2))), currentOffset), chamberWidth),
         channelA |-> Span(Sub(Add(bodyX, Mul(bodyW, Frac(3, 10))), Q(15)), Q(30)),
         channelB |-> Span(Sub(Add(bodyX, Mul(bodyW, Frac(7, 10))), Q(15)), Q(30))]

\* Spool values are the multiples of 5 from -5 * MaxSpoolStep to
\* 5 * MaxSpoolStep, beyond the range [-100, 100] on both sides, and the
\* prop left out.
MaxSpoolStep == 25

Spools == {Q(5 * k) : k \in -MaxSpoolStep..MaxSpoolStep} \cup {Undefined}

InitValve ==
    /\ call \in {Call("ServoValve2D", <<s>>) : s \in Spools}
    /\ ret = <<>>
    /\ pc = "call"
    /\ props = <<>>
    /\ lprops = <<>>
    /\ frame = 0
    /\ out = NoOutput
    /\ deps = <<>>
    /\ updates = 0
    /\ observed = <<>>
    /\ preview = NoState
    /\ lines = <<>>
    /\ firstOut = <<>>
    /\ revisit = FALSE

CallServoValve2D ==
    /\ call.fn = "ServoValve2D"
    /\ Return(ServoValve2D(call.args[1]))

NextValve == CallServoValve2D

SpecValve == InitValve /\ [][NextValve]_vars

\* Two horizontal extents share more than a point.
Overlap(a, b) ==
    /\ Lt(a.x, Add(b.x, b.width))
    /\ Lt(b.x, Add(a.x, a.width))

\* Extent a lies inside extent b.
Covered(a, b) ==
    /\ Le(b.x, a.x)
    /\ Le(Add(a.x, a.width), Add(b.x, b.width))

\* The port channel opens into the P chamber, into a T chamber.
OpensToP(channel) == Overlap(channel, ret.pCenter)

OpensToT(channel) == Overlap(channel, ret.tLeft) \/ Overlap(channel, ret.tRight)

CoveredByLand(channel) == Covered(channel, ret.land2) \/ Covered(channel, ret.land3)

\* The spool prop of the call, 0 when left out.
SpoolProp == IF call.args[1] = Undefined THEN Q(0) ELSE call.args[1]

\* C27: the geometry realises the documented routing: at spool >= +100
\* channel A opens into the P chamber and channel B into a T chamber, at
\* spool <= -100 channel B opens into P and channel A into T, at spool = 0
\* both channels are covered by a land.
C27_DocumentedRouting ==
    Returned("ServoValve2D") =>
        /\ Ge(SpoolProp, Q(100)) => OpensToP(ret.channelA) /\ OpensToT(ret.channelB)
        /\ Le(SpoolProp, Q(-100)) => OpensToP(ret.channelB) /\ OpensToT(ret.channelA)
        /\ SpoolProp = Q(0) => CoveredByLand(ret.channelA) /\ CoveredByLand(ret.channelB)

(***************************************************************************)
(* TimeSeriesPlot                                                          *)
(***************************************************************************)
\* const padding = 40
padding == 40

\* const step = 2
step == 2

\* getValueAtFrame(f) of the caller: a ramp, a constant, a wave.
getValueAtFrame(fn, f) ==
    IF fn = "ramp" THEN Frac(f, 8)
    ELSE IF fn = "half" THEN Frac(1, 2)
    ELSE Frac((<<0, 1, 0, -1>>)[(f % 4) + 1], 4)

\* The values of f in for (let f = startFrame; f <= endFrame; f += step).
RECURSIVE SampleLoop(_, _)
SampleLoop(f, endFrame) ==
    IF f > endFrame THEN <<>> ELSE <<f>> \o SampleLoop(f + step, endFrame)

\* The frames sampled at frame f: from Math.max(0, frame - timeWindow) to frame.
SampleFrames(p, f) ==
    SampleLoop(IF f - p.timeWindow > 0 THEN f - p.timeWindow ELSE 0, f)

\* (height - padding) - ((val - yMin) / (yMax - yMin)) * graphHeight
PlotY(p, val) ==
    LET graphHeight == Sub(p.height, Q(padding * 2))
    IN  Sub(Sub(p.height, Q(padding)),
            Mul(Div(Sub(val, p.yMin), Sub(p.yMax, p.yMin)), graphHeight))

\* The point `${px.toFixed(1)},${py.toFixed(1)}` of the sample of frame sf.
PlotPoint(p, f, sf) ==
    LET graphWidth == Sub(p.width, Q(padding * 2))
        relativeF == sf - (f - p.timeWindow)
        px == Add(Mul(Div(Q(relativeF), Q(p.timeWindow)), graphWidth), Q(padding))
    IN  [x |-> toFixed(px, Q(1)),
         y |-> toFixed(PlotY(p, getValueAtFrame(p.getValueAtFrame, sf)), Q(1))]

\* TimeSeriesPlot(props) at frame f: the points of the polyline and the
\* centre of the current-value dot.
TimeSeriesPlot(p, f) ==
    LET samples == SampleFrames(p, f)
    IN  [points |-> [k \in 1..Len(samples) |-> PlotPoint(p, f, samples[k])],
         curX |-> Sub(p.width, Q(padding)),
         curY |-> PlotY(p, getValueAtFrame(p.getValueAtFrame, f))]

\* The plot is rendered at the frames 0..MaxPlotFrame.
MaxPlotFrame == 6

PlotProps ==
    {[width |-> Q(400), height |-> Q(200), yMin |-> Q(0), yMax |-> Q(1),
      timeWindow |-> tw, getValueAtFrame |-> fn] :
        tw \in {2, 3, 4, 180}, fn \in {"ramp", "half", "wave"}}

InitPlot ==
    /\ call \in {Call("TimeSeriesPlot", <<p>>) : p \in PlotProps}
    /\ frame \in 0..MaxPlotFrame
    /\ ret = <<>>
    /\ pc = "call"
    /\ props = <<>>
    /\ lprops = <<>>
    /\ out = NoOutput
    /\ deps = <<>>
    /\ updates = 0
    /\ observed = <<>>
    /\ preview = NoState
    /\ lines = <<>>
    /\ firstOut = <<>>
    /\ revisit = FALSE

CallTimeSeriesPlot ==
    /\ call.fn = "TimeSeriesPlot"
    /\ Return(TimeSeriesPlot(call.args[1], frame))

NextPlot == CallTimeSeriesPlot

SpecPlot == InitPlot /\ [][NextPlot]_vars

\* The number a decimal text denotes.
TextValue(t) == Frac(IF t.neg THEN -t.digits ELSE t.digits, 10 ^ t.decimals)

\* C28: at every frame the last point of the polyline is the sample of the
\* current frame, at x = width - padding, where the current-value dot is;
\* every point has x in [padding, width - padding] and the sample frames
\* increase strictly.
C28_LineEndsAtDot ==
    Returned("TimeSeriesPlot") =>
        LET p == call.args[1]
            samples == SampleFrames(p, frame)
            n == Len(ret.points)
        IN  /\ n >= 1
            /\ samples[n] = frame
            /\ ret.points[n].x = toFixed(Sub(p.width, Q(padding)), Q(1))
            /\ ret.points[n] = [x |-> toFixed(ret.curX, Q(1)), y |-> toFixed(ret.curY, Q(1))]
            /\ \A k \in 1..n :
                   /\ Le(Q(padding), TextValue(ret.points[k].x))
                   /\ Le(TextValue(ret.points[k].x), Sub(p.width, Q(padding)))
            /\ \A k \in 1..(n - 1) : samples[k] < samples[k + 1]

(***************************************************************************)
(* MouseCoordinateOverlay over the viewport of Camera2D                    *)
(***************************************************************************)
\* useState(null): no mouse position yet.
NoMouse == [x |-> NaN, y |-> NaN]

\* The body of MouseCoordinateOverlay: worldX, worldY of the mouse position
\* under cameraState (0, 0 without a mouse position).
MouseCoordinateOverlay(p, mousePos, cameraState) ==
    IF mousePos = NoMouse THEN [mousePos |-> mousePos, worldX |-> Q(0), worldY |-> Q(0)]
    ELSE LET scaleX == Div(p.sceneWidth, cameraState.width)
             scaleY == Div(p.sceneHeight, cameraState.height)
             scale == MathMin(scaleX, scaleY)
             centeredX == Sub(mousePos.x, Div(p.sceneWidth, Q(2)))
             centeredY == Sub(mousePos.y, Div(p.sceneHeight, Q(2)))
             unscaledX == Div(centeredX, scale)
             unscaledY == Div(centeredY, scale)
         IN  [mousePos |-> mousePos,
              worldX |-> Add(unscaledX, cameraState.centerX),
              worldY |-> Sub(cameraState.centerY, unscaledY)]

\* handleMouseMove(e) with the container filling the scene (rect = scene):
\* the clamped position.
handleMouseMove(p, e) ==
    [x |-> MathMax(Q(0), MathMin(e.x, p.sceneWidth)),
     y |-> MathMax(Q(0), MathMin(e.y, p.sceneHeight))]

\* Cameras with aspect lock that zoom from WideState to NarrowState.
OverlayCameraProps ==
    {p \in CameraProps :
        /\ p.startFrame = 0 /\ p.endFrame = 2
        /\ p.initialState = WideState /\ p.targetState = NarrowState
        /\ p.easing \in {"linear", "easeInOut"}
        /\ p.maintainAspectRatio /\ p.clampFrames
        /\ p.onUpdate = "stable"}

\* The mouse is moved to the screen position of a world point of the
\* viewport: the centre plus these fractions of the width and the height.
MouseOffsets == {Frac(-1, 4), Q(0), Frac(1, 4)}

InitOverlay ==
    /\ props \in OverlayCameraProps
    /\ frame = 0
    /\ pc = "mount"
    /\ out = NoOutput
    /\ deps = <<>>
    /\ updates = 0
    /\ observed = <<>>
    /\ lprops = <<>>
    /\ preview = NoState
    /\ lines = <<>>
    /\ firstOut = <<>>
    /\ revisit = FALSE
    /\ call = <<>>
    /\ ret = MouseCoordinateOverlay(props, NoMouse, NoState)

\* A render of the scene at frame f: Camera2D, then the overlay with the
\* viewport of the frame as cameraState.
RenderWithOverlay(f) ==
    /\ RenderCamera(f)
    /\ ret' = MouseCoordinateOverlay(props, ret.mousePos, out'.viewport)
    /\ UNCHANGED <<lprops, preview, lines, firstOut, revisit, call>>

\* A mousemove event at the screen position of the world point
\* (centerX + a * width, centerY + b * height): setMousePos and the render
\* of the overlay that follows.
MouseMove(a, b) ==
    /\ pc = "idle"
    /\ out.ok
    /\ LET v == out.viewport
           t == out.transform
           world == [x |-> Add(v.centerX, Mul(a, v.width)),
                     y |-> Add(v.centerY, Mul(b, v.height))]
           e == [x |-> Add(Mul(world.x, t.scale), t.translateX),
                 y |-> Add(Mul(world.y, t.scale), t.translateY)]
       IN  /\ call' = Call("handleMouseMove", <<world, e>>)
           /\ ret' = MouseCoordinateOverlay(props, handleMouseMove(props, e), v)
    /\ UNCHANGED <<props, lprops, frame, out, deps, updates, observed, preview, lines,
                   firstOut, revisit, pc>>

NextOverlay ==
    \/ \E f \in Frames : RenderWithOverlay(f)
    \/ RunEffect
    \/ \E a, b \in MouseOffsets : MouseMove(a, b)

SpecOverlay == InitOverlay /\ [][NextOverlay]_vars

\* C29: the overlay inverts the transform of Camera2D: the world point it
\* shows is the one that screen = world * scale + translate puts under the
\* mouse, in X and in Y.
C29_OverlayInvertsCamera ==
    (pc = "idle" /\ out.ok /\ ret.mousePos # NoMouse) =>
        /\ Add(Mul(ret.worldX, out.transform.scale), out.transform.translateX)
               = ret.mousePos.x
        /\ Add(Mul(ret.worldY, out.transform.scale), out.transform.translateY)
               = ret.mousePos.y

====
